---- MODULE Spec2Model ----
(***************************************************************************)
(* Verification model of the Phoenix2 verification pipeline.               *)
(*                                                                         *)
(* Spec         : the verification sessions of server.py driving           *)
(*                DockerEmulationOrchestrator.run_verification             *)
(*                (docker_emulator.py) on one asyncio event loop.          *)
(* SpecPlatform : concurrent calls of                                      *)
(*                EmulationPlatformOrchestrator.run_complete_workflow      *)
(*                (emulation_platform.py) on the shared orchestrator and   *)
(*                its shared TestExecutorWorker, each with its own sinks.  *)
(* SpecLive     : Spec with weak fairness of the steps of every run, for   *)
(*                the progress properties.                                 *)
(* SpecWorkers  : one call of a worker function (_execute_in_container,    *)
(*                generate_report, the backend's summary) on arguments     *)
(*                drawn from bounded sets.                                 *)
(* SpecReport   : one call of the report's recommendation or coverage      *)
(*                function.                                                *)
(* SpecGenerators : one generation of the test list of a config, or one    *)
(*                merge of parsed documents.                               *)
(*                                                                         *)
(* Scheduling.  All handlers are coroutines of a single event loop: a      *)
(* handler runs without interruption until it awaits something that really *)
(* suspends (asyncio.sleep in the simulated test execution; subprocess.run *)
(* blocks the loop).  loopOwner / wfLoop is the run or workflow that       *)
(* currently holds the loop, 0 when the loop is free.                      *)
(*                                                                         *)
(* Locals.  The values local to a request handler (its session argument,   *)
(* the outcome list, the backend's return value, ...) are dropped when the *)
(* handler returns; the session record, the container record and the       *)
(* registry persist.                                                       *)
(*                                                                         *)
(* Logs.  Of the log lines a run emits, the model keeps the per-test       *)
(* "Running" and "Result" lines and the "ERROR" lines.                     *)
(***************************************************************************)
EXTENDS Integers, Sequences, FiniteSets, TLC

\* ------------------------------------------------------------------ bounds
NumSessions == 2
MaxRuns == 2
NumTests == 2
NumWorkflows == 2
NumDocs == 2
MaxLen == 3
MaxOutcomes == 134
ManyOutcomes == 2001
MaxCaps == 2
MaxReqs == 4
NumBootRequests == 2

Sessions == 1..NumSessions
Runs == 1..MaxRuns
Workflows == 1..NumWorkflows
BootRequests == 1..NumBootRequests

\* The test list the registry returns for the session's emulator
\* (server.py:362/390): NumTests test cases with distinct ids.
SubmittedTests == [i \in 1..NumTests |-> [id |-> <<"TEST", i>>]]

VARIABLES
    \* server.py: verification_sessions[session_id]
    sessStatus,     \* session["status"], "none" while the id is unused
    sessLogs,       \* session["logs"]
    sessResults,    \* session["results"] (the report's verdict, the number
                    \* of outcomes and docker_mode), NoResults for None
    sessError,      \* session["error"], "none" while unset
    \* emulation_platform.py: RegistryManagerWorker._index["reports"]
    reports,
    \* docker_emulator.py: DockerManagerWorker._docker_available
    dockerCache,
    \* one invocation of server.run_verification per run id
    pc,             \* position of the handler
    runSess,        \* the session the request names, 0 outside the handler
    containerStatus,\* ContainerConfig.status of the run's container
    dockerAvail,    \* local docker_available of run_verification
    startResult,    \* start_result["status"]
    fwMissing,      \* load_firmware raised FileNotFoundError
    stopCalls,      \* number of stop_container calls for the container
    results,        \* local results of execute_tests
    idx,            \* loop index of execute_tests (1-based)
    dockerResult,   \* value returned by run_verification
    raisedAt,       \* tests (by position) whose script write, docker cp
                    \* or docker exec raised
    response,       \* how the request ended: "rejected" (400),
                    \* "completed" (200) or "failed" (500)
    loopOwner       \* run holding the event loop, 0 when free

sessVars == <<sessStatus, sessLogs, sessResults, sessError, reports>>
runVars == <<pc, runSess, containerStatus, dockerAvail, startResult,
             fwMissing, stopCalls, results, idx, dockerResult, raisedAt,
             response>>
dockerSide == <<sessVars, dockerCache, runVars, loopOwner>>

VARIABLES
    \* emulation_platform.py: EmulationPlatformOrchestrator._workflow_status
    workflowStatus,
    \* emulation_platform.py: TestExecutorWorker
    execLogCallback,\* self._log_callback: the sink of a workflow, 0 for None
    execStatus,     \* self.status
    \* one invocation of run_complete_workflow per workflow id
    wfPc,           \* position of the coroutine
    wfPhaseIdx,     \* index in Phases of the phase being entered, the phase
                    \* it ended in once the call has ended
    logSink,        \* behaviour of the log_callback passed to the call
    progSink,       \* behaviour of the progress_callback passed to the call
    wfDocs,         \* spec_documents: per document, "ok" or "unreadable"
    wfParsed,       \* parsed_docs: the documents (by position) parsed
    wfResults,      \* local results of execute_tests
    wfIdx,          \* loop index of execute_tests (1-based)
    wfReturn,       \* how the call ended: "completed" or "failed"
    wfFailCause,    \* what raised when the call failed: "phase" or "sink"
    sinkCalls,      \* per sink, the events it was called with
    \* RegistryManagerWorker._index (emulators, tests, reports) and the
    \* firmware directory of TestExecutorWorker, by the workflow that wrote
    store,
    wfLoop          \* workflow holding the event loop, 0 when free

platSide == <<workflowStatus, execLogCallback, execStatus, wfPc, wfPhaseIdx,
              logSink, progSink, wfDocs, wfParsed, wfResults, wfIdx, wfReturn,
              wfFailCause, sinkCalls, store, wfLoop>>

VARIABLES
    \* one call of a worker function on drawn arguments
    call            \* [fn, args, ret]: the function, what it was given and
                    \* what it returned; fn = "none" before any call

workerSide == <<call>>

VARIABLES
    \* emulation_platform.py: RegistryManagerWorker, in the detail the
    \* registry's own contracts need
    regIndex,       \* self._index["emulators"]: per emulator id, its entry
    regFiles,       \* the files under emulators_path, by path
    regTests,       \* the test sets of register_tests, by emulator id
    \* server.py: session["emulator_info"] of one verification session
    uploadInfo

registrySide == <<regIndex, regFiles, regTests, uploadInfo>>

VARIABLES
    \* emulation_platform.py: the files under TestExecutorWorker.firmware_path
    fwFiles,        \* by path, the bytes written last
    \* server.py: session["firmware_info"], per session
    fwInfo,
    \* docker_emulator.py: firmware_data of load_firmware, per session
    fwLoaded

firmwareSide == <<fwFiles, fwInfo, fwLoaded>>

VARIABLES
    \* chipset_emulation.py: the one ChipsetEmulationOrchestrator of the
    \* process (chipset_orchestrator)
    activeProfile,  \* self._active_profile
    \* server.py: the calls of run_boot_simulation, per request
    bootPc,         \* where the handler stands
    bootChipset,    \* its path parameter chipset_id
    bootProfile,    \* the profile argument of its simulate_boot
    bootResult      \* what it returned

chipsetSide == <<activeProfile, bootPc, bootChipset, bootProfile, bootResult>>

serviceSide == <<registrySide, firmwareSide, chipsetSide>>

vars == <<dockerSide, platSide, workerSide, serviceSide>>

\* ------------------------------------------------------------ pure helpers

LogEvent(kind, k) == [kind |-> kind, k |-> k]

\* A check that probes the runtime on every call.
ProbeResults_NoCache(cache) == {"yes", "no"}

\* check_docker_available: the values the call can return given the cache;
\* the value returned is also the value cached.
ProbeResults(cache) ==
    IF cache = "unknown" THEN {"yes", "no"} ELSE {cache}

\* _execute_in_container: outcome of docker cp and docker exec.
\*   cp: "ok" | "nonzero" (return code ignored) | "raise"
\*   ex: "exit0" | "nonzero" | "raise" (launch error or timeout)
RealOutcome(cp, ex) ==
    IF cp = "raise" \/ ex = "raise" THEN "error"
    ELSE IF ex = "exit0" THEN "passed" ELSE "failed"

CountStatus(seq, st) ==
    Cardinality({i \in DOMAIN seq : seq[i].status = st})

\* passed / total * 100 is evaluated in binary floating point.  Where the
\* exact value lies midway between two tenths the double can lie below it;
\* for totals below 160 it does so, with an odd tenth below, exactly here.
FloatBelowTie(passed, total) ==
    total = 80 /\ passed \in {23, 49, 51}

\* A summary that cuts the rate off after the first decimal.
PassRateTenths_Truncated(passed, total) ==
    IF total = 0 THEN 0 ELSE (passed * 1000) \div total

\* round((passed / total * 100) if total > 0 else 0, 1) in tenths of a
\* percent: round() takes the nearest tenth of the double, the even one when
\* the double is midway.  Valid for totals below 160, and for every total
\* where the exact value is not midway between two tenths.
PassRateTenths(passed, total) ==
    IF total = 0 THEN 0
    ELSE LET n == passed * 1000
             q == n \div total
             rem2 == 2 * (n % total)
         IN IF rem2 > total THEN q + 1
            ELSE IF rem2 < total THEN q
            ELSE IF FloatBelowTie(passed, total) THEN q
            ELSE IF q % 2 = 0 THEN q ELSE q + 1

\* A threshold that 95.0 itself does not pass.
Verdict_StrictPass(rate) ==
    IF rate > 950 THEN "PASS"
    ELSE IF rate >= 800 THEN "CONDITIONAL"
    ELSE "FAIL"

Verdict(rate) ==
    IF rate >= 950 THEN "PASS"
    ELSE IF rate >= 800 THEN "CONDITIONAL"
    ELSE "FAIL"

\* session["results"] while it is None (server.py:327).
NoResults == [verdict |-> "none", total |-> 0, docker_mode |-> "none"]

\* A handler without the guard.
AlreadyRunning_NoGuard(s) == FALSE

\* server.py:353 guard of run_verification
AlreadyRunning(s) == sessStatus[s] = "running"

\* Requests take the run ids in increasing order.
NextRequest(r) ==
    /\ pc[r] = "idle"
    /\ \A q \in Runs : q < r => pc[q] # "idle"

\* ---------------------------------------------------------------- initial

InitDocker ==
    /\ sessStatus = [s \in Sessions |-> "none"]
    /\ sessLogs = [s \in Sessions |-> <<>>]
    /\ sessResults = [s \in Sessions |-> NoResults]
    /\ sessError = [s \in Sessions |-> "none"]
    /\ reports = <<>>
    /\ dockerCache = "unknown"
    /\ pc = [r \in Runs |-> "idle"]
    /\ runSess = [r \in Runs |-> 0]
    /\ containerStatus = [r \in Runs |-> "none"]
    /\ dockerAvail = [r \in Runs |-> "unknown"]
    /\ startResult = [r \in Runs |-> "none"]
    /\ fwMissing = [r \in Runs |-> FALSE]
    /\ stopCalls = [r \in Runs |-> 0]
    /\ results = [r \in Runs |-> <<>>]
    /\ idx = [r \in Runs |-> 0]
    /\ dockerResult = [r \in Runs |-> [status |-> "none", test_results |-> <<>>]]
    /\ raisedAt = [r \in Runs |-> {}]
    /\ response = [r \in Runs |-> "none"]
    /\ loopOwner = 0

\* A backend that reports every run as real.
DockerMode_AlwaysReal(r) == "real"

\* docker_result.get("docker_mode", "simulated") (server.py:433): the value
\* of docker_emulator.py:773 when run_verification returned its completed
\* record, the default when it returned the error record, which has no
\* docker_mode.
DockerMode(r) ==
    IF dockerResult[r].status = "completed"
    THEN (IF dockerAvail[r] = "yes" THEN "real" ELSE "simulated")
    ELSE "simulated"

\* ------------------------------------------------------- server.py actions

\* The handler of run r returns: the values it computed with are gone.
DropLocals(r) ==
    /\ dockerAvail' = [dockerAvail EXCEPT ![r] = "unknown"]
    /\ results' = [results EXCEPT ![r] = <<>>]
    /\ idx' = [idx EXCEPT ![r] = 0]
    /\ dockerResult' = [dockerResult EXCEPT ![r] =
                          [status |-> "none", test_results |-> <<>>]]
    /\ raisedAt' = [raisedAt EXCEPT ![r] = {}]
    /\ startResult' = [startResult EXCEPT ![r] = "none"]
    /\ fwMissing' = [fwMissing EXCEPT ![r] = FALSE]
    /\ runSess' = [runSess EXCEPT ![r] = 0]

KeepLocals ==
    UNCHANGED <<dockerAvail, results, idx, dockerResult, raisedAt,
                startResult, fwMissing, runSess>>

\* upload_binary_for_verification: creates the session record under a fresh
\* id (ids are taken in increasing order).
UploadBinary(s) ==
    /\ loopOwner = 0
    /\ sessStatus[s] = "none"
    /\ \A q \in Sessions : q < s => sessStatus[q] # "none"
    /\ sessStatus' = [sessStatus EXCEPT ![s] = "uploaded"]
    /\ sessLogs' = [sessLogs EXCEPT ![s] = <<>>]
    /\ sessResults' = [sessResults EXCEPT ![s] = NoResults]
    /\ UNCHANGED <<sessError, reports, dockerCache, runVars, loopOwner>>
    /\ UNCHANGED <<platSide, workerSide, serviceSide>>

\* get_docker_status (GET /docker-status): one call of
\* check_docker_available on the backend's DockerManagerWorker.
DockerStatus ==
    /\ loopOwner = 0
    /\ \E a \in ProbeResults(dockerCache) : dockerCache' = a
    /\ UNCHANGED <<sessVars, runVars, loopOwner>>
    /\ UNCHANGED <<platSide, workerSide, serviceSide>>

\* run_verification, request for a session that is running: HTTP 400.
RunRejected(r, s) ==
    /\ loopOwner = 0
    /\ NextRequest(r)
    /\ sessStatus[s] # "none"
    /\ AlreadyRunning(s)
    /\ pc' = [pc EXCEPT ![r] = "done"]
    /\ response' = [response EXCEPT ![r] = "rejected"]
    /\ UNCHANGED runSess
    /\ UNCHANGED <<sessVars, dockerCache, containerStatus, dockerAvail,
                   startResult, fwMissing, stopCalls, results, idx,
                   dockerResult, loopOwner>>
    /\ UNCHANGED raisedAt
    /\ UNCHANGED <<platSide, workerSide, serviceSide>>

\* run_verification, lines 356-390: mark running, reset the logs, fetch or
\* generate the tests (which may raise).
RunAccepted(r, s) ==
    /\ loopOwner = 0
    /\ NextRequest(r)
    /\ sessStatus[s] # "none"
    /\ ~AlreadyRunning(s)
    /\ sessStatus' = [sessStatus EXCEPT ![s] = "running"]
    /\ sessLogs' = [sessLogs EXCEPT ![s] = <<>>]
    /\ runSess' = [runSess EXCEPT ![r] = s]
    /\ \E testsOk \in BOOLEAN :
         pc' = [pc EXCEPT ![r] = IF testsOk THEN "check_docker"
                                 ELSE "server_except"]
    /\ loopOwner' = r
    /\ UNCHANGED <<sessResults, sessError, reports, dockerCache,
                   containerStatus, dockerAvail, startResult, fwMissing,
                   stopCalls, results, idx, dockerResult>>
    /\ UNCHANGED <<raisedAt, response>>
    /\ UNCHANGED <<platSide, workerSide, serviceSide>>

\* run_verification, lines 403-450: convert the outcomes, generate and
\* register the report, store the results, mark completed.
Report(r) ==
    /\ loopOwner = r
    /\ pc[r] = "report"
    /\ LET s == runSess[r]
           trs == dockerResult[r].test_results
           total == Len(trs)
           passed == CountStatus(trs, "passed")
           rate == PassRateTenths(passed, total)
           mode == DockerMode(r)
       IN \E reportOk \in BOOLEAN :
            IF reportOk
            THEN /\ reports' = Append(reports,
                        [session |-> s, verdict |-> Verdict(rate),
                         total |-> total])
                 /\ sessResults' = [sessResults EXCEPT ![s] =
                        [verdict |-> Verdict(rate),
                         total |-> total, docker_mode |-> mode]]
                 /\ sessStatus' = [sessStatus EXCEPT ![s] = "completed"]
                 /\ pc' = [pc EXCEPT ![r] = "done"]
                 /\ response' = [response EXCEPT ![r] = "completed"]
                 /\ loopOwner' = 0
                 /\ DropLocals(r)
                 /\ UNCHANGED <<sessLogs, sessError>>
            ELSE /\ pc' = [pc EXCEPT ![r] = "server_except"]
                 /\ KeepLocals
                 /\ UNCHANGED <<sessVars, loopOwner, response>>
    /\ UNCHANGED <<dockerCache, containerStatus, stopCalls>>
    /\ UNCHANGED <<platSide, workerSide, serviceSide>>

\* get_verification_results (server.py:497-517): what it answers for
\* session s.
GetVerificationResults(s) ==
    IF sessStatus[s] # "completed"
    THEN [status |-> sessStatus[s], results |-> NoResults]
    ELSE [status |-> "completed", results |-> sessResults[s]]

\* list_verification_sessions (server.py:519-531): the entries of the
\* sessions that exist; the verdict is that of session["results"] when
\* there are results, None otherwise.
ListVerificationSessions ==
    [s \in {q \in Sessions : sessStatus[q] # "none"} |->
        [status |-> sessStatus[s],
         verdict |-> IF sessResults[s] # NoResults
                     THEN sessResults[s].verdict ELSE "none"]]

\* An except branch that leaves the session's status as it is.
ExceptStatus_Unchanged(s) == sessStatus[s]

\* server.py:453: the status the except branch gives the session.
ExceptStatus(s) == "failed"

\* run_verification, lines 452-457: the except branch.
ServerExcept(r) ==
    /\ loopOwner = r
    /\ pc[r] = "server_except"
    /\ LET s == runSess[r]
       IN /\ sessStatus' = [sessStatus EXCEPT ![s] = ExceptStatus(s)]
          /\ sessError' = [sessError EXCEPT ![s] = "error"]
          /\ sessLogs' = [sessLogs EXCEPT ![s] = Append(@, LogEvent("ERROR", 0))]
    /\ pc' = [pc EXCEPT ![r] = "done"]
    /\ response' = [response EXCEPT ![r] = "failed"]
    /\ loopOwner' = 0
    /\ DropLocals(r)
    /\ UNCHANGED <<sessResults, reports, dockerCache, containerStatus,
                   stopCalls>>
    /\ UNCHANGED <<platSide, workerSide, serviceSide>>

\* ------------------------------------------- docker_emulator.py actions
\* (steps of DockerEmulationOrchestrator.run_verification; the sink is the
\* server's log_callback, which appends to session["logs"])

Deliver(r, ev) ==
    sessLogs' = [sessLogs EXCEPT ![runSess[r]] = Append(@, ev)]

\* Step 1: check_docker_available.
CheckDocker(r) ==
    /\ loopOwner = r
    /\ pc[r] = "check_docker"
    /\ \E a \in ProbeResults(dockerCache) :
         /\ dockerCache' = a
         /\ dockerAvail' = [dockerAvail EXCEPT ![r] = a]
    /\ pc' = [pc EXCEPT ![r] = "create"]
    /\ UNCHANGED <<sessVars, runSess, containerStatus, startResult, fwMissing,
                   stopCalls, results, idx, dockerResult, loopOwner>>
    /\ UNCHANGED <<raisedAt, response>>
    /\ UNCHANGED <<platSide, workerSide, serviceSide>>

\* Step 2: create_container.
CreateContainer(r) ==
    /\ loopOwner = r
    /\ pc[r] = "create"
    /\ containerStatus' = [containerStatus EXCEPT ![r] = "creating"]
    /\ pc' = [pc EXCEPT ![r] = "start"]
    /\ UNCHANGED <<sessVars, dockerCache, runSess, dockerAvail, startResult,
                   fwMissing, stopCalls, results, idx, dockerResult, loopOwner>>
    /\ UNCHANGED <<raisedAt, response>>
    /\ UNCHANGED <<platSide, workerSide, serviceSide>>

\* Step 3: start_container.  run: outcome of `docker run`.
StartContainer(r) ==
    /\ loopOwner = r
    /\ pc[r] = "start"
    /\ \E a \in ProbeResults(dockerCache), run \in {"ok", "nonzero", "raise"} :
         /\ dockerCache' = a
         /\ IF a = "no"
            THEN /\ run = "ok"
                 /\ containerStatus' = [containerStatus EXCEPT ![r] = "running"]
                 /\ startResult' = [startResult EXCEPT ![r] = "simulated"]
            ELSE IF run = "ok"
            THEN /\ containerStatus' = [containerStatus EXCEPT ![r] = "running"]
                 /\ startResult' = [startResult EXCEPT ![r] = "running"]
            ELSE /\ containerStatus' = [containerStatus EXCEPT ![r] = "error"]
                 /\ startResult' = [startResult EXCEPT ![r] = "error"]
    /\ pc' = [pc EXCEPT ![r] = "load"]
    /\ UNCHANGED <<sessVars, runSess, dockerAvail, fwMissing, stopCalls,
                   results, idx, dockerResult, loopOwner>>
    /\ UNCHANGED <<raisedAt, response>>
    /\ UNCHANGED <<platSide, workerSide, serviceSide>>

\* Step 4: load_firmware.  fw: whether firmware_path exists.
LoadFirmware(r) ==
    /\ loopOwner = r
    /\ pc[r] = "load"
    /\ \E fw \in {"present", "missing"} :
         IF fw = "missing"
         THEN /\ fwMissing' = [fwMissing EXCEPT ![r] = TRUE]
              /\ pc' = [pc EXCEPT ![r] = "docker_except"]
              /\ UNCHANGED containerStatus
         ELSE /\ containerStatus' = [containerStatus EXCEPT ![r] = "loading_firmware"]
              /\ pc' = [pc EXCEPT ![r] = "exec_begin"]
              /\ UNCHANGED fwMissing
    /\ UNCHANGED <<sessVars, dockerCache, runSess, dockerAvail, startResult,
                   stopCalls, results, idx, dockerResult, loopOwner>>
    /\ UNCHANGED <<raisedAt, response>>
    /\ UNCHANGED <<platSide, workerSide, serviceSide>>

\* Step 5: execute_tests, lines 440-449.
ExecBegin(r) ==
    /\ loopOwner = r
    /\ pc[r] = "exec_begin"
    /\ containerStatus' = [containerStatus EXCEPT ![r] = "testing"]
    /\ results' = [results EXCEPT ![r] = <<>>]
    /\ idx' = [idx EXCEPT ![r] = 1]
    /\ pc' = [pc EXCEPT ![r] = "test_loop"]
    /\ UNCHANGED <<sessVars, dockerCache, runSess, dockerAvail, startResult,
                   fwMissing, stopCalls, dockerResult, loopOwner>>
    /\ UNCHANGED <<raisedAt, response>>
    /\ UNCHANGED <<platSide, workerSide, serviceSide>>

\* execute_tests, lines 451-464: the "Running" line, then either
\* _execute_in_container up to the script being written (real mode; the
\* write is outside the try of line 496) or _simulate_test_execution up to
\* its asyncio.sleep (simulated mode), where the loop is released.
TestStart(r) ==
    /\ loopOwner = r
    /\ pc[r] = "test_loop"
    /\ idx[r] <= Len(SubmittedTests)
    /\ Deliver(r, LogEvent("Running", idx[r]))
    /\ IF dockerAvail[r] = "yes"
       THEN /\ \E written \in BOOLEAN :
                 IF written
                 THEN /\ pc' = [pc EXCEPT ![r] = "in_container"]
                      /\ UNCHANGED raisedAt
                 ELSE /\ pc' = [pc EXCEPT ![r] = "docker_except"]
                      /\ raisedAt' = [raisedAt EXCEPT ![r] = @ \cup {idx[r]}]
            /\ UNCHANGED loopOwner
       ELSE /\ pc' = [pc EXCEPT ![r] = "sleeping"]
            /\ loopOwner' = 0
            /\ UNCHANGED raisedAt
    /\ UNCHANGED <<sessStatus, sessResults, sessError, reports, dockerCache,
                   runSess, containerStatus, dockerAvail, startResult,
                   fwMissing, stopCalls, results, idx, dockerResult, response>>
    /\ UNCHANGED <<platSide, workerSide, serviceSide>>

\* lines 466-469: append the outcome, emit the "Result" line.
Record(r, st) ==
    /\ results' = [results EXCEPT ![r] =
                     Append(@, [test_id |-> SubmittedTests[idx[r]].id,
                                status |-> st])]
    /\ Deliver(r, LogEvent("Result", idx[r]))
    /\ idx' = [idx EXCEPT ![r] = @ + 1]
    /\ pc' = [pc EXCEPT ![r] = "test_loop"]

\* _execute_in_container, lines 496-535.
TestFinishReal(r) ==
    /\ loopOwner = r
    /\ pc[r] = "in_container"
    /\ \E cp \in {"ok", "nonzero", "raise"}, ex \in {"exit0", "nonzero", "raise"} :
         /\ Record(r, RealOutcome(cp, ex))
         /\ raisedAt' = [raisedAt EXCEPT ![r] =
                           IF cp = "raise" \/ ex = "raise"
                           THEN @ \cup {idx[r]} ELSE @]
    /\ UNCHANGED <<sessStatus, sessResults, sessError, reports, dockerCache,
                   runSess, containerStatus, dockerAvail, startResult,
                   fwMissing, stopCalls, dockerResult, loopOwner>>
    /\ UNCHANGED response
    /\ UNCHANGED <<platSide, workerSide, serviceSide>>

\* _simulate_test_execution, lines 557-590, resumed after the sleeps.
TestFinishSim(r) ==
    /\ loopOwner = 0
    /\ pc[r] = "sleeping"
    /\ \E passed \in BOOLEAN :
         Record(r, IF passed THEN "passed" ELSE "failed")
    /\ loopOwner' = r
    /\ UNCHANGED <<sessStatus, sessResults, sessError, reports, dockerCache,
                   runSess, containerStatus, dockerAvail, startResult,
                   fwMissing, stopCalls, dockerResult>>
    /\ UNCHANGED <<raisedAt, response>>
    /\ UNCHANGED <<platSide, workerSide, serviceSide>>

\* execute_tests, lines 471-477.
ExecEnd(r) ==
    /\ loopOwner = r
    /\ pc[r] = "test_loop"
    /\ idx[r] > Len(SubmittedTests)
    /\ containerStatus' = [containerStatus EXCEPT ![r] = "completed"]
    /\ pc' = [pc EXCEPT ![r] = "cleanup"]
    /\ UNCHANGED <<sessVars, dockerCache, runSess, dockerAvail, startResult,
                   fwMissing, stopCalls, results, idx, dockerResult, loopOwner>>
    /\ UNCHANGED <<raisedAt, response>>
    /\ UNCHANGED <<platSide, workerSide, serviceSide>>

\* Step 6 and the return of lines 759-788: stop_container, result record.
Cleanup(r) ==
    /\ loopOwner = r
    /\ pc[r] = "cleanup"
    /\ \E a \in ProbeResults(dockerCache) : dockerCache' = a
    /\ containerStatus' = [containerStatus EXCEPT ![r] = "stopped"]
    /\ stopCalls' = [stopCalls EXCEPT ![r] = @ + 1]
    /\ dockerResult' = [dockerResult EXCEPT ![r] =
                          [status |-> "completed", test_results |-> results[r]]]
    /\ pc' = [pc EXCEPT ![r] = "report"]
    /\ UNCHANGED <<sessVars, runSess, dockerAvail, startResult, fwMissing,
                   results, idx, loopOwner>>
    /\ UNCHANGED <<raisedAt, response>>
    /\ UNCHANGED <<platSide, workerSide, serviceSide>>

\* lines 790-796: the except branch of run_verification.
DockerExcept(r) ==
    /\ loopOwner = r
    /\ pc[r] = "docker_except"
    /\ Deliver(r, LogEvent("ERROR", 0))
    /\ dockerResult' = [dockerResult EXCEPT ![r] =
                          [status |-> "error", test_results |-> <<>>]]
    /\ pc' = [pc EXCEPT ![r] = "report"]
    /\ UNCHANGED <<sessStatus, sessResults, sessError, reports, dockerCache,
                   runSess, containerStatus, dockerAvail, startResult,
                   fwMissing, stopCalls, results, idx, loopOwner>>
    /\ UNCHANGED <<raisedAt, response>>
    /\ UNCHANGED <<platSide, workerSide, serviceSide>>

\* --------------------------------------------- emulation_platform.py actions
\* (EmulationPlatformOrchestrator.run_complete_workflow on the shared
\* orchestrator, its shared TestExecutorWorker and its shared registry)

\* A pipeline that uploads the firmware before it registers the tests.
Phases_Swapped ==
    <<"parsing_documents", "generating_emulator", "registering_emulator",
      "generating_boot_tests", "generating_feature_tests",
      "uploading_firmware", "registering_tests", "executing_tests",
      "generating_report", "registering_report", "completed">>

\* run_complete_workflow: the phases announced through _update_status.
Phases == <<"parsing_documents", "generating_emulator", "registering_emulator",
            "generating_boot_tests", "generating_feature_tests",
            "registering_tests", "uploading_firmware", "executing_tests",
            "generating_report", "registering_report", "completed">>
ParsePhase == 1
GeneratePhase == 2
RegisterEmulatorPhase == 3
RegisterTestsPhase == 6
UploadPhase == 7
ExecPhase == 8
RegisterReportPhase == 10
LastPhase == 11

SinkEvent(w, kind, k) == [src |-> w, kind |-> kind, k |-> k]

\* A callback being invoked with events evs; sink 0 is "no callback".
AddCalls(sc, sink, evs) ==
    IF sink = 0 THEN sc ELSE [sc EXCEPT ![sink] = @ \o evs]

\* execute_tests, lines 1115-1121: `await progress_callback(...)` outside any
\* try.  An async sink that raises and a plain function (whose result cannot
\* be awaited) both make the statement raise.
ProgressRaises(kind) == kind \in {"raises", "sync"}

\* The documents a call can be given: NumDocs documents, each readable or not
\* (a missing file, undecodable bytes, malformed YAML or JSON).
DocLists == [1..NumDocs -> {"ok", "unreadable"}]

\* run_complete_workflow, lines 1469-1475: the documents parsed when the loop
\* ends, which it does at the first document parse_document raises for.
ParsedDocs(docs) ==
    {i \in DOMAIN docs : \A j \in 1..i : docs[j] = "ok"}

\* What the registry and the firmware directory hold once workflow w's phase
\* p has done its write: register_emulator (617), register_tests (660),
\* upload_binary (1064-1066), register_report (694).  The emulator id of
\* workflow w is w (ids are fresh uuids).
PhaseWrite(st, w, p) ==
    IF p = RegisterEmulatorPhase
    THEN [st EXCEPT !.emulators = @ \cup {w}]
    ELSE IF p = RegisterTestsPhase
    THEN [st EXCEPT !.tests = @ \cup {w}]
    ELSE IF p = UploadPhase
    THEN [st EXCEPT !.firmware = @ \cup {w}]
    ELSE IF p = RegisterReportPhase
    THEN [st EXCEPT !.reports = @ \cup {w}]
    ELSE st

\* An except branch that removes what the failed workflow registered.
StoreAfterFailure_Rollback(w) ==
    [emulators |-> store.emulators \ {w}, tests |-> store.tests \ {w},
     firmware |-> store.firmware \ {w}, reports |-> store.reports \ {w}]

\* run_complete_workflow, lines 1545-1548: the except branch touches neither
\* the registry nor the firmware directory.
StoreAfterFailure(w) == store

\* The message of the exception that ended workflow w: the phase whose work
\* raised, or the progress sink.
ErrorOf(w) ==
    IF wfFailCause[w] = "sink" THEN "progress_callback"
    ELSE Phases[wfPhaseIdx[w]]

InitPlatform ==
    /\ workflowStatus = [id |-> 0, status |-> "none", phase |-> "none",
                         error |-> "none"]
    /\ execLogCallback = 0
    /\ execStatus = "idle"
    /\ wfPc = [w \in Workflows |-> "idle"]
    /\ wfPhaseIdx = [w \in Workflows |-> 0]
    /\ logSink = [w \in Workflows |-> "none"]
    /\ progSink = [w \in Workflows |-> "none"]
    /\ wfDocs = [w \in Workflows |-> <<>>]
    /\ wfParsed = [w \in Workflows |-> {}]
    /\ wfResults = [w \in Workflows |-> <<>>]
    /\ wfIdx = [w \in Workflows |-> 0]
    /\ wfReturn = [w \in Workflows |-> "none"]
    /\ wfFailCause = [w \in Workflows |-> "none"]
    /\ sinkCalls = [w \in Workflows |-> <<>>]
    /\ store = [emulators |-> {}, tests |-> {}, firmware |-> {},
                reports |-> {}]
    /\ wfLoop = 0

\* No worker function has been called; a behaviour of the workers makes one
\* call.
InitWorkers ==
    call = [fn |-> "none", args |-> <<>>, ret |-> "none"]

\* The call of workflow w returns or raises: its arguments and locals are
\* gone.
WfDropLocals(w) ==
    /\ logSink' = [logSink EXCEPT ![w] = "none"]
    /\ progSink' = [progSink EXCEPT ![w] = "none"]
    /\ wfDocs' = [wfDocs EXCEPT ![w] = <<>>]
    /\ wfParsed' = [wfParsed EXCEPT ![w] = {}]
    /\ wfResults' = [wfResults EXCEPT ![w] = <<>>]
    /\ wfIdx' = [wfIdx EXCEPT ![w] = 0]

\* run_complete_workflow is called with its documents and its two sinks;
\* lines 1464-1465.
WfStart(w) ==
    /\ wfLoop = 0
    /\ wfPc[w] = "idle"
    /\ \A q \in Workflows : q < w => wfPc[q] # "idle"
    /\ \E ls \in {"ok", "raises"}, ps \in {"none", "ok", "raises", "sync"},
          docs \in DocLists :
         /\ logSink' = [logSink EXCEPT ![w] = ls]
         /\ progSink' = [progSink EXCEPT ![w] = ps]
         /\ wfDocs' = [wfDocs EXCEPT ![w] = docs]
    /\ workflowStatus' = [id |-> w, status |-> "started", phase |-> "none",
                          error |-> "none"]
    /\ wfPc' = [wfPc EXCEPT ![w] = "phase"]
    /\ wfPhaseIdx' = [wfPhaseIdx EXCEPT ![w] = ParsePhase]
    /\ wfLoop' = w
    /\ UNCHANGED <<execLogCallback, execStatus, wfParsed, wfResults, wfIdx,
                   wfReturn, wfFailCause, sinkCalls, store>>
    /\ UNCHANGED <<dockerSide, workerSide, serviceSide>>

\* _update_status (lines 1550-1562) for a phase other than executing_tests
\* and completed; what the sink raises is swallowed.
WfPhase(w) ==
    /\ wfLoop = w
    /\ wfPc[w] = "phase"
    /\ wfPhaseIdx[w] \notin {ExecPhase, LastPhase}
    /\ workflowStatus' = [workflowStatus EXCEPT !.phase = Phases[wfPhaseIdx[w]]]
    /\ sinkCalls' = AddCalls(sinkCalls, w,
                             <<SinkEvent(w, "phase", Phases[wfPhaseIdx[w]])>>)
    /\ wfPc' = [wfPc EXCEPT ![w] = "work"]
    /\ UNCHANGED <<execLogCallback, execStatus, wfPhaseIdx, logSink, progSink,
                   wfDocs, wfParsed, wfResults, wfIdx, wfReturn, wfFailCause,
                   store, wfLoop>>
    /\ UNCHANGED <<dockerSide, workerSide, serviceSide>>

\* Phase parsing_documents, lines 1469-1475: parse_document for each document
\* in turn; what it raises is not caught in the loop.
WfParse(w) ==
    /\ wfLoop = w
    /\ wfPc[w] = "work"
    /\ wfPhaseIdx[w] = ParsePhase
    /\ wfParsed' = [wfParsed EXCEPT ![w] = ParsedDocs(wfDocs[w])]
    /\ IF \A i \in DOMAIN wfDocs[w] : wfDocs[w][i] = "ok"
       THEN /\ wfPhaseIdx' = [wfPhaseIdx EXCEPT ![w] = @ + 1]
            /\ wfPc' = [wfPc EXCEPT ![w] = "phase"]
            /\ UNCHANGED wfFailCause
       ELSE /\ wfPc' = [wfPc EXCEPT ![w] = "wf_except"]
            /\ wfFailCause' = [wfFailCause EXCEPT ![w] = "phase"]
            /\ UNCHANGED wfPhaseIdx
    /\ UNCHANGED <<workflowStatus, execLogCallback, execStatus, logSink,
                   progSink, wfDocs, wfResults, wfIdx, wfReturn, sinkCalls,
                   store, wfLoop>>
    /\ UNCHANGED <<dockerSide, workerSide, serviceSide>>

\* The work of a phase after parsing_documents other than executing_tests:
\* it returns, or it raises before or after its write.  generate_emulator
\* is the last reader of the parsed documents.
WfWork(w) ==
    /\ wfLoop = w
    /\ wfPc[w] = "work"
    /\ wfPhaseIdx[w] # ParsePhase
    /\ \E ok \in BOOLEAN, written \in BOOLEAN :
         /\ (ok => written)
         /\ store' = IF written THEN PhaseWrite(store, w, wfPhaseIdx[w])
                     ELSE store
         /\ IF ok
            THEN /\ wfPhaseIdx' = [wfPhaseIdx EXCEPT ![w] = @ + 1]
                 /\ wfPc' = [wfPc EXCEPT ![w] = "phase"]
                 /\ UNCHANGED wfFailCause
            ELSE /\ wfPc' = [wfPc EXCEPT ![w] = "wf_except"]
                 /\ wfFailCause' = [wfFailCause EXCEPT ![w] = "phase"]
                 /\ UNCHANGED wfPhaseIdx
    /\ IF wfPhaseIdx[w] = GeneratePhase
       THEN /\ wfDocs' = [wfDocs EXCEPT ![w] = <<>>]
            /\ wfParsed' = [wfParsed EXCEPT ![w] = {}]
       ELSE UNCHANGED <<wfDocs, wfParsed>>
    /\ UNCHANGED <<workflowStatus, execLogCallback, execStatus, logSink,
                   progSink, wfResults, wfIdx, wfReturn, sinkCalls, wfLoop>>
    /\ UNCHANGED <<dockerSide, workerSide, serviceSide>>

\* Phase executing_tests up to the loop: _update_status, then execute_tests
\* lines 1096-1109, which store the sink in the worker.
WfExecBegin(w) ==
    /\ wfLoop = w
    /\ wfPc[w] = "phase"
    /\ wfPhaseIdx[w] = ExecPhase
    /\ workflowStatus' = [workflowStatus EXCEPT !.phase = Phases[ExecPhase]]
    /\ sinkCalls' = AddCalls(sinkCalls, w,
                             <<SinkEvent(w, "phase", Phases[ExecPhase])>>)
    /\ execStatus' = "running"
    /\ execLogCallback' = w
    /\ wfResults' = [wfResults EXCEPT ![w] = <<>>]
    /\ wfIdx' = [wfIdx EXCEPT ![w] = 1]
    /\ wfPc' = [wfPc EXCEPT ![w] = "wf_test_loop"]
    /\ UNCHANGED <<wfPhaseIdx, logSink, progSink, wfDocs, wfParsed, wfReturn,
                   wfFailCause, store, wfLoop>>
    /\ UNCHANGED <<dockerSide, workerSide, serviceSide>>

\* execute_tests, lines 1111-1125: progress event, "Running" line, then
\* _execute_single_test up to its asyncio.sleep, where the loop is released.
\* When the progress statement raises, lines 1138-1141 run instead.
WfTestStart(w) ==
    /\ wfLoop = w
    /\ wfPc[w] = "wf_test_loop"
    /\ wfIdx[w] <= Len(SubmittedTests)
    /\ LET prog == IF progSink[w] = "none" THEN <<>>
                   ELSE <<SinkEvent(w, "progress", wfIdx[w])>>
           afterProg == AddCalls(sinkCalls, w, prog)
       IN IF ProgressRaises(progSink[w])
          THEN /\ execStatus' = "failed"
               /\ sinkCalls' = AddCalls(afterProg, execLogCallback,
                                        <<SinkEvent(w, "ERROR", 0)>>)
               /\ wfFailCause' = [wfFailCause EXCEPT ![w] = "sink"]
               /\ wfPc' = [wfPc EXCEPT ![w] = "wf_except"]
               /\ UNCHANGED wfLoop
          ELSE /\ sinkCalls' = AddCalls(afterProg, execLogCallback,
                                        <<SinkEvent(w, "Running", wfIdx[w])>>)
               /\ wfPc' = [wfPc EXCEPT ![w] = "wf_sleeping"]
               /\ wfLoop' = 0
               /\ UNCHANGED <<execStatus, wfFailCause>>
    /\ UNCHANGED <<workflowStatus, execLogCallback, wfPhaseIdx, logSink,
                   progSink, wfDocs, wfParsed, wfResults, wfIdx, wfReturn,
                   store>>
    /\ UNCHANGED <<dockerSide, workerSide, serviceSide>>

\* _execute_single_test resumed (lines 1166-1209), then lines 1126-1129.
WfTestFinish(w) ==
    /\ wfLoop = 0
    /\ wfPc[w] = "wf_sleeping"
    /\ \E st \in {"passed", "failed", "error"} :
         wfResults' = [wfResults EXCEPT ![w] =
                         Append(@, [test_id |-> SubmittedTests[wfIdx[w]].id,
                                    status |-> st])]
    /\ sinkCalls' = AddCalls(sinkCalls, execLogCallback,
                             <<SinkEvent(w, "Result", wfIdx[w])>>)
    /\ wfIdx' = [wfIdx EXCEPT ![w] = @ + 1]
    /\ wfPc' = [wfPc EXCEPT ![w] = "wf_test_loop"]
    /\ wfLoop' = w
    /\ UNCHANGED <<workflowStatus, execLogCallback, execStatus, wfPhaseIdx,
                   logSink, progSink, wfDocs, wfParsed, wfReturn, wfFailCause,
                   store>>
    /\ UNCHANGED <<dockerSide, workerSide, serviceSide>>

\* execute_tests, lines 1131-1136.
WfExecEnd(w) ==
    /\ wfLoop = w
    /\ wfPc[w] = "wf_test_loop"
    /\ wfIdx[w] > Len(SubmittedTests)
    /\ execStatus' = "completed"
    /\ wfPc' = [wfPc EXCEPT ![w] = "phase"]
    /\ wfPhaseIdx' = [wfPhaseIdx EXCEPT ![w] = ExecPhase + 1]
    /\ UNCHANGED <<workflowStatus, execLogCallback, logSink, progSink, wfDocs,
                   wfParsed, wfResults, wfIdx, wfReturn, wfFailCause,
                   sinkCalls, store, wfLoop>>
    /\ UNCHANGED <<dockerSide, workerSide, serviceSide>>

\* lines 1529-1543: mark completed, announce it, return.
WfComplete(w) ==
    /\ wfLoop = w
    /\ wfPc[w] = "phase"
    /\ wfPhaseIdx[w] = LastPhase
    /\ workflowStatus' = [id |-> w, status |-> "completed",
                          phase |-> Phases[LastPhase], error |-> "none"]
    /\ sinkCalls' = AddCalls(sinkCalls, w,
                             <<SinkEvent(w, "phase", Phases[LastPhase])>>)
    /\ wfReturn' = [wfReturn EXCEPT ![w] = "completed"]
    /\ wfPc' = [wfPc EXCEPT ![w] = "wf_done"]
    /\ wfLoop' = 0
    /\ WfDropLocals(w)
    /\ UNCHANGED <<execLogCallback, execStatus, wfPhaseIdx, wfFailCause,
                   store>>
    /\ UNCHANGED <<dockerSide, workerSide, serviceSide>>

\* lines 1545-1548: the except branch, which re-raises.
WfExcept(w) ==
    /\ wfLoop = w
    /\ wfPc[w] = "wf_except"
    /\ workflowStatus' = [id |-> w, status |-> "failed", phase |-> "none",
                          error |-> ErrorOf(w)]
    /\ store' = StoreAfterFailure(w)
    /\ wfReturn' = [wfReturn EXCEPT ![w] = "failed"]
    /\ wfPc' = [wfPc EXCEPT ![w] = "wf_done"]
    /\ wfLoop' = 0
    /\ WfDropLocals(w)
    /\ UNCHANGED <<execLogCallback, execStatus, wfPhaseIdx, wfFailCause,
                   sinkCalls>>
    /\ UNCHANGED <<dockerSide, workerSide, serviceSide>>

\* ------------------------------------------------ worker functions, one call
\* (each action is one call of a worker function on arguments drawn from a
\* bounded set; call records the function, its arguments and its result)

\* _execute_in_container (docker_emulator.py:479-535) as a function of what
\* the three external operations do.
\*   wr: script_path.write_text, "ok" | "raise" (outside the try)
\*   cp: `docker cp`,  "ok" | "nonzero" (return code not looked at) | "raise"
\*   ex: `docker exec`, "exit0" | "nonzero" | "raise" (launch error, timeout)
\* The value is the outcome's status, "raised" when the call raises.
ExecuteInContainer(wr, cp, ex) ==
    IF wr = "raise" THEN "raised" ELSE RealOutcome(cp, ex)

CallExecuteInContainer ==
    \E wr \in {"ok", "raise"}, cp \in {"ok", "nonzero", "raise"},
       ex \in {"exit0", "nonzero", "raise"} :
        /\ call.fn = "none"
        /\ call' = [fn |-> "_execute_in_container",
                    args |-> [wr |-> wr, cp |-> cp, ex |-> ex],
                    ret |-> ExecuteInContainer(wr, cp, ex)]
        /\ UNCHANGED <<dockerSide, platSide, serviceSide>>

\* TestResult.status and the categories of the outcomes a report is
\* generated over (TestCategory values; server.py:410 gives "boot" or
\* "feature").
Statuses == {"passed", "failed", "error", "skipped"}
Categories == {"boot", "network", "feature"}
Outcomes == [status : Statuses, category : Categories]

\* t outcomes of which the first p passed and the others failed.
BlockList(p, t) ==
    [i \in 1..t |-> [status |-> IF i <= p THEN "passed" ELSE "failed",
                     category |-> "feature"]]

\* The outcome lists the report functions are called with: every list of at
\* most MaxLen outcomes, and the passed/failed lists of at most MaxOutcomes.
ReportInputs ==
    (UNION {[1..n -> Outcomes] : n \in 0..MaxLen})
        \cup {BlockList(p, t) : p \in 0..MaxOutcomes, t \in 0..MaxOutcomes}

\* 'boot' in r.category.lower() (emulation_platform.py:1274): of the
\* categories above only "boot" contains it.
IsBootCategory(cat) == cat = "boot"
IsBootOutcome(o) == IsBootCategory(o.category)

\* A boot analysis that is content with one passed boot test.
AnalyzeBootResults_AnyPassed(boot) ==
    IF boot = <<>> THEN [status |-> "no_boot_tests"]
    ELSE [status |-> IF CountStatus(boot, "passed") > 0 THEN "pass" ELSE "fail",
          tests_run |-> Len(boot),
          tests_passed |-> CountStatus(boot, "passed")]

\* _analyze_boot_results (emulation_platform.py:1316-1336).
AnalyzeBootResults(boot) ==
    IF boot = <<>> THEN [status |-> "no_boot_tests"]
    ELSE [status |-> IF CountStatus(boot, "passed") = Len(boot)
                     THEN "pass" ELSE "fail",
          tests_run |-> Len(boot),
          tests_passed |-> CountStatus(boot, "passed")]

\* generate_report (emulation_platform.py:1250-1275): summary, verdict and
\* boot analysis of the report.
GenerateReport(trs) ==
    LET passed == CountStatus(trs, "passed")
        rate == PassRateTenths(passed, Len(trs))
    IN [summary |-> [total |-> Len(trs), passed |-> passed,
                     failed |-> CountStatus(trs, "failed"),
                     errors |-> CountStatus(trs, "error"),
                     skipped |-> CountStatus(trs, "skipped"),
                     pass_rate |-> rate],
        verdict |-> Verdict(rate),
        boot_analysis |-> AnalyzeBootResults(SelectSeq(trs, IsBootOutcome))]

CallGenerateReport ==
    \E trs \in ReportInputs :
        /\ call.fn = "none"
        /\ call' = [fn |-> "generate_report", args |-> trs,
                    ret |-> GenerateReport(trs)]
        /\ UNCHANGED <<dockerSide, platSide, serviceSide>>

\* run_verification of docker_emulator.py, lines 764-768 and 780-786: the
\* backend's own summary of its outcomes.
BackendSummary(trs) ==
    [total |-> Len(trs), passed |-> CountStatus(trs, "passed"),
     failed |-> CountStatus(trs, "failed"),
     errors |-> CountStatus(trs, "error"),
     pass_rate |-> PassRateTenths(CountStatus(trs, "passed"), Len(trs))]

\* The backend's outcomes are passed, failed or error.
CallBackendSummary ==
    \E trs \in {l \in ReportInputs :
                  \A i \in DOMAIN l : l[i].status # "skipped"} :
        /\ call.fn = "none"
        /\ call' = [fn |-> "run_verification.summary", args |-> trs,
                    ret |-> BackendSummary(trs)]
        /\ UNCHANGED <<dockerSide, platSide, serviceSide>>

\* The categories the recommendation rules look at, and "feature".
ReportCategories == {"boot", "security", "network", "wifi", "feature"}

\* One outcome of status st for every category of cats, followed by pad
\* passed outcomes.
CategoryOrder == <<"wifi", "feature", "network", "security", "boot">>
MixedList(cats, st, pad) ==
    [i \in DOMAIN SelectSeq(CategoryOrder, LAMBDA c : c \in cats) |->
        [status |-> st,
         category |-> SelectSeq(CategoryOrder, LAMBDA c : c \in cats)[i]]]
    \o [i \in 1..pad |-> [status |-> "passed", category |-> "feature"]]

\* Every list of fewer than MaxLen outcomes of these categories, and the
\* lists with one outcome that did not pass in each of some categories.
AnalysisInputs ==
    (UNION {[1..n -> [status : Statuses, category : ReportCategories]] :
               n \in 0..(MaxLen - 1)})
        \cup {MixedList(cats, st, pad) : cats \in SUBSET ReportCategories,
                                         st \in Statuses \ {"passed"},
                                         pad \in 0..(MaxLen + 1)}

\* One entry of the recommendation list: which sentence it is, and the
\* number the sentence carries (0 when it carries none).
Rec(kind, n) == [kind |-> kind, n |-> n]

\* _generate_recommendations (emulation_platform.py:1367-1402).
GenerateRecommendations(trs, verdict) ==
    LET failures == SelectSeq(trs, LAMBDA r : r.status \in {"failed", "error"})
        failure_categories == {failures[i].category : i \in DOMAIN failures}
        If(c, entry) == IF c THEN <<entry>> ELSE <<>>
    IN IF failures = <<>> THEN <<Rec("all_passed", 0)>>
       ELSE If("boot" \in failure_categories, Rec("critical_boot", 0))
            \o If("security" \in failure_categories, Rec("critical_security", 0))
            \o If("network" \in failure_categories, Rec("network", 0))
            \o If("wifi" \in failure_categories, Rec("wifi", 0))
            \o (IF verdict = "CONDITIONAL" THEN <<Rec("warn_conditional", 0)>>
                ELSE IF verdict = "FAIL" THEN <<Rec("warn_fail", 0)>>
                ELSE <<>>)
            \o <<Rec("review", Len(failures))>>

\* generate_report, line 1279: the recommendations for the outcome list and
\* the verdict of lines 1267-1272, on the lists above and the passed/failed
\* lists of at most MaxOutcomes.
CallGenerateRecommendations ==
    \E trs \in AnalysisInputs
                 \cup {BlockList(p, t) : p \in 0..MaxOutcomes, t \in 0..MaxOutcomes} :
        /\ call.fn = "none"
        /\ call' = [fn |-> "_generate_recommendations",
                    args |-> [test_results |-> trs,
                              verdict |-> GenerateReport(trs).verdict],
                    ret |-> GenerateRecommendations(trs, GenerateReport(trs).verdict)]
        /\ UNCHANGED <<dockerSide, platSide, serviceSide>>

\* _calculate_feature_coverage (emulation_platform.py:1338-1365).
CalculateFeatureCoverage(trs) ==
    LET cats == {trs[i].category : i \in DOMAIN trs}
        Of(c) == {i \in DOMAIN trs : trs[i].category = c}
        Passed(c) == Cardinality({i \in Of(c) : trs[i].status = "passed"})
        by == [c \in cats |->
                  [total |-> Cardinality(Of(c)),
                   passed |-> Passed(c),
                   failed |-> Cardinality({i \in Of(c) : trs[i].status # "passed"}),
                   coverage |-> PassRateTenths(Passed(c), Cardinality(Of(c)))]]
    IN [by_category |-> by,
        total_categories |-> Cardinality(cats),
        fully_covered |-> Cardinality({c \in cats : by[c].coverage = 1000})]

\* generate_report, line 1277, on the lists above and on ManyOutcomes
\* outcomes of one category, all or all but one of them passed.
CallCalculateFeatureCoverage ==
    \E trs \in AnalysisInputs
                 \cup {BlockList(p, ManyOutcomes) :
                          p \in {ManyOutcomes - 1, ManyOutcomes}} :
        /\ call.fn = "none"
        /\ call' = [fn |-> "_calculate_feature_coverage", args |-> trs,
                    ret |-> CalculateFeatureCoverage(trs)]
        /\ UNCHANGED <<dockerSide, platSide, serviceSide>>

\* ------------------------------------------------------- test generation
\* Text is a sequence of characters.  str.lower() on the letters the texts
\* below are written with.
LowerChar(c) ==
    CASE c = "B" -> "b" [] c = "O" -> "o" [] c = "T" -> "t"
      [] c = "E" -> "e" [] c = "H" -> "h" [] c = "U" -> "u"
      [] c = "S" -> "s" [] c = "W" -> "w" [] c = "D" -> "d"
      [] c = "C" -> "c" [] c = "R" -> "r" [] c = "V" -> "v"
      [] c = "I" -> "i" [] c = "M" -> "m" [] c = "F" -> "f"
      [] OTHER -> c

Lower(s) == [i \in DOMAIN s |-> LowerChar(s[i])]

\* sub in s, for Python strings.
Contains(sub, s) ==
    \E i \in 0..(Len(s) - Len(sub)) : SubSeq(s, i + 1, i + Len(sub)) = sub

BootWord == <<"b", "o", "o", "t">>

\* An optional argument: None, or a value.
None == [given |-> FALSE, value |-> <<>>]
Some(v) == [given |-> TRUE, value |-> v]

Range(s) == {s[i] : i \in DOMAIN s}
Take(s, n) == SubSeq(s, 1, IF Len(s) < n THEN Len(s) ELSE n)
Ids(s) == [i \in DOMAIN s |-> s[i].id]

RECURSIVE Flatten(_)
Flatten(ss) == IF ss = <<>> THEN <<>> ELSE Head(ss) \o Flatten(Tail(ss))

\* ParsedCapability, ParsedRequirement and GeneratedTestCase, with the
\* fields the generators read or set.
Cap(id, name) == [id |-> id, name |-> name]
Req(id, title, description, linked) ==
    [id |-> id, title |-> title, description |-> description,
     linked_capabilities |-> linked]
TestCase(id, reqs, caps) ==
    [id |-> id, linked_requirements |-> reqs, linked_capabilities |-> caps]

\* The ids parse_document gives the capabilities and the requirements of a
\* document (f"CAP_{i+1:03d}", f"REQ_{i+1:03d}": the numbering starts again
\* in every document), and capability names.
CapIdOf == <<"CAP_001", "CAP_002", "CAP_003">>
CapNameOf == <<<<"E", "t", "h">>, <<"U", "s", "b">>, <<"W", "d", "t">>>>
ReqIdOf == <<"REQ_001", "REQ_002", "REQ_003", "REQ_004", "REQ_005">>

PlainTitle == <<"x">>
NoText == <<>>

\* generate_emulator (emulation_platform.py:417-431, 445-446): the
\* capabilities and requirements of the documents, concatenated.
ConfigOf(docs) ==
    [capabilities |-> Flatten([d \in DOMAIN docs |-> docs[d].capabilities]),
     requirements |-> Flatten([d \in DOMAIN docs |-> docs[d].requirements])]

\* A parsed document with k capabilities and m requirements that cite
\* nothing.
NumberedDoc(k, m) ==
    [capabilities |-> [i \in 1..k |-> Cap(CapIdOf[i], CapNameOf[i])],
     requirements |-> [j \in 1..m |-> Req(ReqIdOf[j], PlainTitle, NoText, <<>>)]]

\* Configs of up to NumDocs documents, each with as many requirements as
\* capabilities or with requirements only: ids repeat across the documents.
IdConfigs ==
    {ConfigOf(docs) :
        docs \in UNION {[1..n -> {NumberedDoc(k, k) : k \in 0..MaxCaps}
                                    \cup {NumberedDoc(0, MaxReqs)}] :
                           n \in 0..NumDocs}}

\* The first k capabilities of a document.
FirstCaps(k) == [i \in 1..k |-> Cap(CapIdOf[i], CapNameOf[i])]

\* Configs of one document whose requirements cite capabilities by text (in
\* another letter case, or only in part) or by id: a requirement names the
\* first capability in capitals, or holds part of its name and cites no
\* capability, the first or the last.
LinkCites ==
    {<<<<"E", "T", "H">>, <<>>>>, <<<<"e", "t">>, <<>>>>,
     <<<<"e", "t">>, <<CapIdOf[1]>>>>, <<<<"e", "t">>, <<CapIdOf[MaxCaps]>>>>}
LinkReqs(m) ==
    {[j \in 1..m |-> Req(ReqIdOf[j], PlainTitle, f[j][1], f[j][2])] :
        f \in [1..m -> LinkCites]}
LinkConfigs ==
    UNION {{[capabilities |-> FirstCaps(k), requirements |-> rs] :
               rs \in LinkReqs(m)} : k \in 1..MaxCaps, m \in 0..MaxReqs}

\* Configs of one document without capabilities whose requirements mention
\* boot in the title, inside a word of the description, or not at all.
BootTexts ==
    {<<<<"B", "o", "o", "t">>, NoText>>,
     <<PlainTitle, <<"r", "e", "B", "O", "O", "T">>>>,
     <<PlainTitle, NoText>>}
BootReqs(m) ==
    {[j \in 1..m |-> Req(ReqIdOf[j], f[j][1], f[j][2], <<>>)] :
        f \in [1..m -> BootTexts]}
BootConfigs ==
    UNION {{[capabilities |-> <<>>, requirements |-> rs] : rs \in BootReqs(m)} :
              m \in 0..MaxReqs}

Configs == IdConfigs \cup LinkConfigs \cup BootConfigs

\* A boot set without the recovery-mode test.
BootTestIds_NoRecovery ==
    <<"BOOT_COLD_001", "BOOT_WARM_001", "BOOT_TIME_001", "BOOT_WDT_001",
      "BOOT_INTEGRITY_001">>

\* The six boot test cases (emulation_platform.py:772-892).
BootTestIds ==
    <<"BOOT_COLD_001", "BOOT_WARM_001", "BOOT_TIME_001", "BOOT_WDT_001",
      "BOOT_INTEGRITY_001", "BOOT_RECOVERY_001">>

\* Test ids as the parts they are formatted from: a literal,
\* f"{cap.id}_FUNC_001", f"REQ_{req.id}_TEST".
LiteralId(lit) == <<"", lit, "">>
FuncId(capId) == <<"", capId, "_FUNC_001">>
ReqTestId(reqId) == <<"REQ_", reqId, "_TEST">>

MentionsBoot(r) ==
    Contains(BootWord, Lower(r.title)) \/ Contains(BootWord, Lower(r.description))

\* generate_boot_tests (emulation_platform.py:761-907).
GenerateBootTests(config, requirements) ==
    LET tests == [i \in DOMAIN BootTestIds |->
                     TestCase(LiteralId(BootTestIds[i]), <<>>, <<>>)]
    IN IF requirements.given /\ requirements.value # <<>>
       THEN LET boot_reqs == SelectSeq(requirements.value, MentionsBoot)
            IN [i \in DOMAIN tests |->
                   [tests[i] EXCEPT !.linked_requirements = Ids(Take(boot_reqs, 2))]]
       ELSE tests

\* A capability test that links every relevant requirement.
GenerateCapabilityTests_Uncapped(cap, requirements) ==
    LET relevant_reqs ==
            SelectSeq(requirements,
                      LAMBDA r : \/ Contains(Lower(cap.name), Lower(r.description))
                                 \/ cap.id \in Range(r.linked_capabilities))
    IN <<TestCase(FuncId(cap.id), Ids(relevant_reqs), <<cap.id>>)>>

\* _generate_capability_tests (emulation_platform.py:960-996).
GenerateCapabilityTests(cap, requirements) ==
    LET relevant_reqs ==
            SelectSeq(requirements,
                      LAMBDA r : \/ Contains(Lower(cap.name), Lower(r.description))
                                 \/ cap.id \in Range(r.linked_capabilities))
    IN <<TestCase(FuncId(cap.id), Ids(Take(relevant_reqs, 3)), <<cap.id>>)>>

\* _generate_requirement_test (emulation_platform.py:998-1016).
GenerateRequirementTest(req) == TestCase(ReqTestId(req.id), <<req.id>>, <<>>)

\* A loop that emits a requirement test for every requirement.
RECURSIVE RequirementLoop_AlwaysEmit(_, _)
RequirementLoop_AlwaysEmit(requirements, tests) ==
    IF requirements = <<>> THEN tests
    ELSE RequirementLoop_AlwaysEmit(Tail(requirements),
             Append(tests, GenerateRequirementTest(Head(requirements))))

\* The loop over the requirements of generate_feature_tests (lines 944-948).
RECURSIVE RequirementLoop(_, _)
RequirementLoop(requirements, tests) ==
    IF requirements = <<>> THEN tests
    ELSE LET req == Head(requirements)
             linked == \E i \in DOMAIN tests :
                          req.id \in Range(tests[i].linked_requirements)
         IN RequirementLoop(Tail(requirements),
                IF linked THEN tests
                ELSE Append(tests, GenerateRequirementTest(req)))

\* generate_feature_tests (emulation_platform.py:922-958).
GenerateFeatureTests(config, capabilities, requirements) ==
    LET caps == IF capabilities.given THEN capabilities.value
                ELSE config.capabilities
        reqs == IF requirements.given THEN requirements.value
                ELSE config.requirements
    IN RequirementLoop(reqs,
           Flatten([i \in DOMAIN caps |-> GenerateCapabilityTests(caps[i], reqs)]))

\* The generation of the test list of a config, as run_complete_workflow
\* (emulation_platform.py:1487-1493) and server.py (154-155, 386-387) do it:
\* both generators are called with the config alone.
CallGenerateTests ==
    \E config \in Configs :
        /\ call.fn = "none"
        /\ LET boot_tests == GenerateBootTests(config, None)
               feature_tests == GenerateFeatureTests(config, None, None)
           IN call' = [fn |-> "generate_tests", args |-> config,
                       ret |-> [boot_tests |-> boot_tests,
                                feature_tests |-> feature_tests,
                                all_tests |-> boot_tests \o feature_tests]]
        /\ UNCHANGED <<dockerSide, platSide, serviceSide>>

\* Hardware-spec mappings: a document gives some of the fields, each with an
\* empty value, the placeholder or a concrete value.
HwKeys == {"soc", "vendor"}
HwValues == {"", "unknown", "BCM2711", "QCA9531"}
HwSpecs == UNION {[ks -> HwValues] : ks \in SUBSET HwKeys}
HwDocs ==
    {[capabilities |-> NumberedDoc(1, 1).capabilities,
      requirements |-> NumberedDoc(1, 1).requirements,
      hardware_spec |-> hw] : hw \in HwSpecs}

\* One round of the loop of _merge_parsed_docs (lines 481-488).
MergeDoc(merged, doc) ==
    LET hw == doc.hardware_spec
        set == {key \in DOMAIN hw : hw[key] # "" /\ hw[key] # "unknown"}
    IN [capabilities |-> merged.capabilities \o doc.capabilities,
        requirements |-> merged.requirements \o doc.requirements,
        hardware_spec |->
            [key \in DOMAIN merged.hardware_spec \cup set |->
                IF key \in set THEN hw[key] ELSE merged.hardware_spec[key]]]

\* _merge_parsed_docs (emulation_platform.py:473-490).
RECURSIVE MergeFrom(_, _)
MergeFrom(merged, docs) ==
    IF docs = <<>> THEN merged
    ELSE MergeFrom(MergeDoc(merged, Head(docs)), Tail(docs))

MergeParsedDocs(docs) ==
    MergeFrom([capabilities |-> <<>>, requirements |-> <<>>,
               hardware_spec |-> <<>>], docs)

CallMergeParsedDocs ==
    \E docs \in UNION {[1..n -> HwDocs] : n \in 0..NumDocs} :
        /\ call.fn = "none"
        /\ call' = [fn |-> "_merge_parsed_docs", args |-> docs,
                    ret |-> MergeParsedDocs(docs)]
        /\ UNCHANGED <<dockerSide, platSide, serviceSide>>

\* ---------------------------------------------------------------- registry
\* RegistryManagerWorker (emulation_platform.py:540-730) with the emulator
\* records it writes and reads back, and the two places of server.py that
\* build a test set from such a record.

EmulatorIds == {"EMU_A", "EMU_B"}

\* vendor and architecture of a merged hardware spec (generate_emulator,
\* emulation_platform.py:437-439).
HwChoices ==
    {[vendor |-> "broadcom", architecture |-> "aarch64"],
     [vendor |-> "qualcomm", architecture |-> "mips"]}

\* Capability and requirement lists of a synthesized config: none or the
\* most of each.
RegistryShapes ==
    {ConfigOf(<<NumberedDoc(k, m)>>) : k \in {0, MaxCaps}, m \in {0, MaxReqs}}

\* EmulatorConfig (emulation_platform.py:120-137), with the fields the
\* registry and the generators read.
EmulatorConfig(id, hw, shape) ==
    [emulator_id |-> id, vendor |-> hw.vendor,
     architecture |-> hw.architecture,
     capabilities |-> shape.capabilities,
     requirements |-> shape.requirements]

RegistryConfigs ==
    {EmulatorConfig(id, hw, shape) :
        id \in EmulatorIds, hw \in HwChoices, shape \in RegistryShapes}

\* One file for every id.
ConfigPath_Shared(emulator_id) == <<"emulators/", "", ".json">>

\* config_file = self.emulators_path / f"{emulator_id}.json"
ConfigPath(emulator_id) == <<"emulators/", emulator_id, ".json">>

\* config_dict of register_emulator (emulation_platform.py:590-606): the
\* lists of the config are kept as counts only. json.dump and json.load keep
\* strings and integers as they are.
ConfigDict(config) ==
    [emulator_id |-> config.emulator_id, vendor |-> config.vendor,
     architecture |-> config.architecture,
     capabilities_count |-> Len(config.capabilities),
     requirements_count |-> Len(config.requirements)]

\* The index entry of an emulator (emulation_platform.py:616-626).
IndexEntry(config_dict) ==
    [id |-> config_dict.emulator_id, vendor |-> config_dict.vendor,
     capabilities_count |-> config_dict.capabilities_count,
     config_path |-> ConfigPath(config_dict.emulator_id)]

\* The names and the contents of uploaded firmware files.
FileNames == {"firmware.bin", "update.bin"}
Contents == {"bytes1", "bytes2", "bytes3"}

\* hashlib.sha256(data).hexdigest(): a value that depends on the bytes
\* alone and differs for different bytes.
Sha256(data) == <<"sha256", data>>

\* binary_path = self.firmware_path / filename
\* (emulation_platform.py:1064)
BinaryPath(filename) == <<"firmware/", filename>>

\* ------------------------------------------------------ chipset profiles
\* str.upper() on the letters the chipset ids below are written with.
UpperChar(c) ==
    CASE c = "b" -> "B" [] c = "c" -> "C" [] c = "m" -> "M"
      [] c = "t" -> "T" [] c = "x" -> "X"
      [] OTHER -> c

Upper(s) == [i \in DOMAIN s |-> UpperChar(s[i])]

\* Two of the keys of CHIPSET_PROFILES (chipset_emulation.py:274, 217).
BCM6755 == <<"B", "C", "M", "6", "7", "5", "5">>
MT7986 == <<"M", "T", "7", "9", "8", "6">>
CHIPSET_PROFILES == {BCM6755, MT7986}

\* The chipset ids of the requests: the two keys, one of them in lower case
\* too, and an id CHIPSET_PROFILES does not have.
ChipsetIds == {BCM6755, Lower(BCM6755), MT7986, <<"X", "9">>}

\* _create_profile (chipset_emulation.py:551-600): the profile carries the
\* id as it was asked for and the data of the key.
CreateProfile(chipset_id, key) == [chipset_id |-> chipset_id, data |-> key]

\* get_profile (chipset_emulation.py:483-494): the lookup is by the upper-
\* cased id; None for an id that is not a key.
GetProfile(chipset_id) ==
    IF Upper(chipset_id) \in CHIPSET_PROFILES
    THEN Some(CreateProfile(chipset_id, Upper(chipset_id)))
    ELSE None

\* The dict run_boot_simulation returns (server.py:258), by its keys
\* "status", "message" and "chipset_id"; "none" and <<>> for a key the dict
\* does not have.
NoBootResult == [status |-> "none", message |-> "none", chipset_id |-> <<>>]

\* (chipset_emulation.py:1044-1045)
NotInitialized ==
    [status |-> "error", message |-> "Emulator not initialized",
     chipset_id |-> <<>>]

\* The dict of simulate_boot (chipset_emulation.py:781-787): no "status",
\* the chipset_id of the profile it was given.
BootReport(profile) ==
    [status |-> "none", message |-> "none", chipset_id |-> profile.chipset_id]

\* A registry without emulators (_load_index without an index file), no
\* session and an empty firmware directory.
InitServices ==
    /\ regIndex = [id \in EmulatorIds |-> None]
    /\ regFiles = [p \in {ConfigPath(id) : id \in EmulatorIds} |-> None]
    /\ regTests = [id \in EmulatorIds |-> None]
    /\ uploadInfo = None
    /\ fwFiles = [p \in {BinaryPath(name) : name \in FileNames} |-> None]
    /\ fwInfo = [s \in Sessions |-> None]
    /\ fwLoaded = [s \in Sessions |-> None]
    /\ activeProfile = None
    /\ bootPc = [r \in BootRequests |-> "idle"]
    /\ bootChipset = [r \in BootRequests |-> <<>>]
    /\ bootProfile = [r \in BootRequests |-> None]
    /\ bootResult = [r \in BootRequests |-> NoBootResult]

Init == InitDocker /\ InitPlatform /\ InitWorkers /\ InitServices

\* register_emulator (emulation_platform.py:585-641): no await inside, so
\* the call is one step.
RegisterEmulator(config) ==
    LET config_dict == ConfigDict(config)
        entry == IndexEntry(config_dict)
    IN /\ regFiles' = [regFiles EXCEPT ![entry.config_path] = Some(config_dict)]
       /\ regIndex' = [regIndex EXCEPT ![config_dict.emulator_id] = Some(entry)]
       /\ call' = [fn |-> "register_emulator", args |-> config,
                   ret |-> [status |-> "registered",
                            emulator_id |-> config_dict.emulator_id]]
       /\ UNCHANGED <<dockerSide, platSide, regTests, uploadInfo,
                   firmwareSide, chipsetSide>>

\* get_emulator (emulation_platform.py:723-730).
GetEmulator(emulator_id) ==
    IF ~regIndex[emulator_id].given THEN None
    ELSE regFiles[regIndex[emulator_id].value.config_path]

CallGetEmulator(emulator_id) ==
    /\ call' = [fn |-> "get_emulator", args |-> emulator_id,
                ret |-> GetEmulator(emulator_id)]
    /\ UNCHANGED <<dockerSide, platSide, serviceSide>>

\* get_tests (emulation_platform.py:732-739).
GetTests(emulator_id) == regTests[emulator_id]

\* emulator.get('capabilities', []) and emulator.get('requirements', []) on
\* a record read from the registry (server.py:140-145, 366-371).
DictCapabilities(emulator) ==
    IF "capabilities" \in DOMAIN emulator THEN emulator.capabilities ELSE <<>>
DictRequirements(emulator) ==
    IF "requirements" \in DOMAIN emulator THEN emulator.requirements ELSE <<>>

\* The EmulatorConfig server.py builds from a record (146-153, 373-384).
ConfigFromDict(emulator) ==
    [emulator_id |-> emulator.emulator_id, vendor |-> emulator.vendor,
     architecture |-> emulator.architecture,
     capabilities |-> DictCapabilities(emulator),
     requirements |-> DictRequirements(emulator)]

\* boot_tests + feature_tests of a config (server.py:154-156, 386-388,
\* emulation_platform.py:1487-1493).
AllTests(config) ==
    GenerateBootTests(config, None) \o GenerateFeatureTests(config, None, None)

\* server.generate_tests (server.py:132-161) for a registered emulator; for
\* an unknown id the handler answers 404 and changes nothing.
ServerGenerateTests(emulator_id) ==
    /\ GetEmulator(emulator_id).given
    /\ LET all_tests == AllTests(ConfigFromDict(GetEmulator(emulator_id).value))
       IN /\ regTests' = [regTests EXCEPT ![emulator_id] = Some(all_tests)]
          /\ call' = [fn |-> "server.generate_tests", args |-> emulator_id,
                      ret |-> all_tests]
    /\ UNCHANGED <<dockerSide, platSide, regIndex, regFiles, uploadInfo,
                   firmwareSide, chipsetSide>>

\* upload_binary_for_verification (server.py:312-326): the session keeps the
\* record get_emulator returned.
SessionUpload(emulator_id) ==
    /\ ~uploadInfo.given
    /\ GetEmulator(emulator_id).given
    /\ uploadInfo' = GetEmulator(emulator_id)
    /\ UNCHANGED <<dockerSide, platSide, workerSide, regIndex, regFiles,
                   regTests, firmwareSide, chipsetSide>>

\* run_verification up to the call of the backend (server.py:360-390): the
\* registered test set of the session's emulator, generated from
\* session["emulator_info"] when there is none or it is empty.
SessionTests ==
    /\ uploadInfo.given
    /\ LET emulator == uploadInfo.value
           emulator_id == emulator.emulator_id
           tests == GetTests(emulator_id)
           generate == ~tests.given \/ tests.value = <<>>
           all_tests == AllTests(ConfigFromDict(emulator))
       IN /\ regTests' = IF generate
                         THEN [regTests EXCEPT ![emulator_id] = Some(all_tests)]
                         ELSE regTests
          /\ call' = [fn |-> "run_verification.tests", args |-> emulator_id,
                      ret |-> [generated |-> generate,
                               tests |-> IF generate THEN all_tests
                                         ELSE tests.value]]
    /\ UNCHANGED <<dockerSide, platSide, regIndex, regFiles, uploadInfo,
                   firmwareSide, chipsetSide>>

\* ---------------------------------------------------------------- evidence
\* The two places that produce an outcome without running anything:
\* ContainerTestExecutorWorker._simulate_test_execution
\* (docker_emulator.py:537-590) and TestExecutorWorker._execute_single_test
\* (emulation_platform.py:1138-1209).

\* Test cases as the executors read them: a name and steps with an action
\* and an expectation.
StepActions == {"power_on", "read_uart"}
Step(action) == [action |-> action, expected |-> "ok"]
EvidenceTests ==
    {[id |-> "T1", name |-> "Cold Boot", steps |-> steps] :
        steps \in UNION {[1..n -> {Step(a) : a \in StepActions}] :
                            n \in 0..MaxLen}}

\* hashlib.sha256(json.dumps(lines).encode()).hexdigest()[:16]: a value
\* that depends on the lines alone.
Checksum(lines) == <<"sha256[:16]", lines>>

\* The firmware checksum both executors put in the evidence.
FirmwareChecksum == "fw"

\* _simulate_test_execution (docker_emulator.py:549-590): output_lines,
\* the outcome and its evidence. Nothing in it catches an exception.
SimulateTestExecution(test, passed) ==
    LET output_lines ==
            <<<<"[SIMULATED] Test: ", test.name>>,
              <<"[SIMULATED] Container: ", "c">>,
              <<"[SIMULATED] Firmware: ", FirmwareChecksum>>,
              <<"[SIMULATED] Executing test steps...", "">>>>
            \o [i \in DOMAIN test.steps |-> <<"  - ", test.steps[i].action>>]
            \o <<<<"[SIMULATED] Result: ", IF passed THEN "PASS" ELSE "FAIL">>>>
    IN [test_id |-> test.id,
        status |-> IF passed THEN "passed" ELSE "failed",
        lines |-> output_lines,
        evidence |-> [container_id |-> "c",
                      firmware_checksum |-> FirmwareChecksum,
                      simulated |-> TRUE,
                      checksum |-> Checksum(output_lines)]]

CallSimulateTestExecution ==
    \E test \in EvidenceTests, passed \in BOOLEAN :
        /\ call.fn = "none"
        /\ call' = [fn |-> "_simulate_test_execution",
                    args |-> [test |-> test, passed |-> passed],
                    ret |-> SimulateTestExecution(test, passed)]
        /\ UNCHANGED <<dockerSide, platSide, serviceSide>>

\* The log lines of _execute_single_test after k steps
\* (emulation_platform.py:1152-1160).
StepLogs(test, k) ==
    <<<<"Initializing test: ", test.name>>>>
        \o Flatten([i \in 1..k |->
                      <<<<"  Step: ", test.steps[i].action>>,
                        <<"  Expected: ", test.steps[i].expected>>>>])

\* _execute_single_test (emulation_platform.py:1138-1209). The body runs in
\* a try: it ends with a passed or failed outcome, or, when a statement
\* raises after "raised" steps (a step, or the read of the firmware file for
\* the evidence), with the error outcome of the except branch. raised = -1
\* when nothing raises.
ExecuteSingleTest(test, passed, raised) ==
    IF raised < 0
    THEN LET logs == StepLogs(test, Len(test.steps))
         IN [test_id |-> test.id,
             status |-> IF passed THEN "passed" ELSE "failed",
             lines |-> logs,
             evidence |-> [execution_log |-> logs,
                           emulator_id |-> "e",
                           firmware_checksum |-> FirmwareChecksum,
                           checksum |-> Checksum(logs)]]
    ELSE [test_id |-> test.id,
          status |-> "error",
          lines |-> StepLogs(test, raised) \o <<<<"ERROR: ", "e">>>>,
          evidence |-> [error |-> "e"]]

CallExecuteSingleTest ==
    \E test \in EvidenceTests, passed \in BOOLEAN :
        \E raised \in -1..Len(test.steps) :
            /\ call.fn = "none"
            /\ call' = [fn |-> "_execute_single_test",
                        args |-> [test |-> test, passed |-> passed,
                                  raised |-> raised],
                        ret |-> ExecuteSingleTest(test, passed, raised)]
            /\ UNCHANGED <<dockerSide, platSide, serviceSide>>

\* ---------------------------------------------------------------- firmware
\* The firmware of a verification session from upload to load.

\* upload_binary_for_verification (server.py:307-343) with upload_binary
\* (emulation_platform.py:1059-1085): write the bytes under the file's name,
\* record checksum and path in a new session. Between the read of the upload
\* and the creation of the session nothing awaits.
FirmwareUpload(s, filename, data) ==
    /\ ~fwInfo[s].given
    /\ \A q \in Sessions : q < s => fwInfo[q].given
    /\ fwFiles' = [fwFiles EXCEPT ![BinaryPath(filename)] = Some(data)]
    /\ fwInfo' = [fwInfo EXCEPT ![s] =
                    Some([filename |-> filename, path |-> BinaryPath(filename),
                          sha256 |-> Sha256(data)])]
    /\ UNCHANGED <<dockerSide, platSide, workerSide, registrySide, fwLoaded,
                   chipsetSide>>

\* load_firmware (docker_emulator.py:319-373) called by the run of session s
\* with session["firmware_info"]["path"] (server.py:394-399): the bytes the
\* file holds now are read, checksummed and copied to the volume.
FirmwareLoad(s) ==
    /\ fwInfo[s].given
    /\ fwFiles[fwInfo[s].value.path].given
    /\ fwLoaded' = [fwLoaded EXCEPT ![s] = fwFiles[fwInfo[s].value.path]]
    /\ UNCHANGED <<dockerSide, platSide, workerSide, registrySide, fwFiles,
                   fwInfo, chipsetSide>>

\* -------------------------------------------------------- boot simulation
\* initialize_emulator (chipset_emulation.py:993-1035), as far as the
\* orchestrator's profile goes: a known chipset replaces _active_profile, an
\* unknown one returns an error and leaves it as it was.  The callbacks are
\* None, so nothing in it suspends.
InitializedProfile(chipset_id) ==
    IF GetProfile(chipset_id).given THEN GetProfile(chipset_id)
    ELSE activeProfile

\* The orchestrator's run_boot_simulation up to its first suspension
\* (chipset_emulation.py:1037-1051) for request r, with _active_profile as
\* it is when the call is made: an error without a profile, else
\* simulate_boot starts with that profile as its argument.
StartSimulation(r, active) ==
    IF ~active.given
    THEN /\ bootPc' = [bootPc EXCEPT ![r] = "done"]
         /\ bootResult' = [bootResult EXCEPT ![r] = NotInitialized]
         /\ UNCHANGED bootProfile
    ELSE /\ bootPc' = [bootPc EXCEPT ![r] = "simulating"]
         /\ bootProfile' = [bootProfile EXCEPT ![r] = active]
         /\ UNCHANGED bootResult

\* POST /boot-simulation/{chipset_id} (server.py:250-258) up to its first
\* suspension.  The result of initialize_emulator is not looked at.  With a
\* firmware upload the handler awaits firmware.read() next; without one it
\* goes on to run_boot_simulation in the same step.
RunBootSimulation(r, chipset_id, firmware) ==
    /\ bootPc[r] = "idle"
    /\ \A q \in BootRequests : q < r => bootPc[q] # "idle"
    /\ bootChipset' = [bootChipset EXCEPT ![r] = chipset_id]
    /\ activeProfile' = InitializedProfile(chipset_id)
    /\ IF firmware
       THEN /\ bootPc' = [bootPc EXCEPT ![r] = "reading"]
            /\ UNCHANGED <<bootProfile, bootResult>>
       ELSE StartSimulation(r, InitializedProfile(chipset_id))
    /\ UNCHANGED <<dockerSide, platSide, workerSide, registrySide,
                   firmwareSide>>

\* firmware.read() is over (server.py:254-258): the bytes go to
\* /tmp/firmware.bin, which simulate_boot never opens, and
\* run_boot_simulation is called.
FirmwareRead(r) ==
    /\ bootPc[r] = "reading"
    /\ StartSimulation(r, activeProfile)
    /\ UNCHANGED <<dockerSide, platSide, workerSide, registrySide,
                   firmwareSide, activeProfile, bootChipset>>

\* simulate_boot is through its stages (chipset_emulation.py:738-787, with
\* asyncio.sleep in _simulate_stage:803) and the handler returns its dict.
SimulateBoot(r) ==
    /\ bootPc[r] = "simulating"
    /\ bootPc' = [bootPc EXCEPT ![r] = "done"]
    /\ bootResult' = [bootResult EXCEPT ![r] = BootReport(bootProfile[r].value)]
    /\ UNCHANGED <<dockerSide, platSide, workerSide, registrySide,
                   firmwareSide, activeProfile, bootChipset, bootProfile>>

\* POST /initialize/{chipset_id} (server.py:242-247): one step on the same
\* orchestrator.
InitializeChipsetEmulator(chipset_id) ==
    /\ activeProfile' = InitializedProfile(chipset_id)
    /\ UNCHANGED <<dockerSide, platSide, workerSide, registrySide,
                   firmwareSide, bootPc, bootChipset, bootProfile, bootResult>>

\* --------------------------------------------------------- session report
\* The report of a verification session (server.py:403-418): the outcomes
\* of the backend are given a category from the name of their test, and the
\* report is generated over them.

\* The names of the six boot test cases (emulation_platform.py:774, 796,
\* 816, 838, 857, 876), in the order of BootTestIds.
BootTestNames ==
    <<
    <<"C", "o", "l", "d", " ", "B", "o", "o", "t", " ", "S", "e", "q", "u",
      "e", "n", "c", "e", " ", "T", "e", "s", "t">>,
    <<"W", "a", "r", "m", " ", "B", "o", "o", "t", " ", "(", "R", "e", "b",
      "o", "o", "t", ")", " ", "T", "e", "s", "t">>,
    <<"B", "o", "o", "t", " ", "T", "i", "m", "i", "n", "g", " ", "V", "e",
      "r", "i", "f", "i", "c", "a", "t", "i", "o", "n">>,
    <<"W", "a", "t", "c", "h", "d", "o", "g", " ", "T", "i", "m", "e", "r",
      " ", "T", "e", "s", "t">>,
    <<"B", "o", "o", "t", "l", "o", "a", "d", "e", "r", " ", "I", "n", "t",
      "e", "g", "r", "i", "t", "y", " ", "V", "e", "r", "i", "f", "i", "c",
      "a", "t", "i", "o", "n">>,
    <<"B", "o", "o", "t", " ", "R", "e", "c", "o", "v", "e", "r", "y", " ",
      "M", "o", "d", "e", " ", "T", "e", "s", "t">>
    >>

\* Capabilities with the category parse_document gave them.
SecureBootCap ==
    [id |-> CapIdOf[1], category |-> "security",
     name |-> <<"S", "e", "c", "u", "r", "e", " ", "B", "o", "o", "t">>]
UsbCap == [id |-> CapIdOf[2], category |-> "usb", name |-> CapNameOf[2]]
SessionCaps == {SecureBootCap, UsbCap}

\* _map_category (emulation_platform.py:1018-1036) on the categories above.
MapCategory(category) ==
    CASE category = "security" -> "security"
      [] category = "usb" -> "usb"
      [] category = "boot" -> "boot"
      [] OTHER -> "performance"

\* The registered test dicts of a config with the given capabilities: the
\* boot test cases (category TestCategory.BOOT) and one test case per
\* capability, named f"{cap.name} - Basic Functionality"
\* (emulation_platform.py:969-973).
RegisteredTests(caps) ==
    [i \in DOMAIN BootTestIds |->
        [id |-> LiteralId(BootTestIds[i]), name |-> BootTestNames[i],
         category |-> "boot"]]
    \o [i \in DOMAIN caps |->
          [id |-> FuncId(caps[i].id),
           name |-> caps[i].name \o
                      <<" ", "-", " ", "B", "a", "s", "i", "c", " ", "F", "u", "n", "c", "t",
                        "i", "o", "n", "a", "l", "i", "t", "y">>,
           category |-> MapCategory(caps[i].category)]]

\* server.py:410: the category the handler gives an outcome.
ServerCategory(test_name) ==
    IF Contains(BootWord, Lower(test_name)) THEN "boot" ELSE "feature"

\* server.py:403-418 with generate_report's boot analysis
\* (emulation_platform.py:1274-1275): the converted outcomes of the tests
\* with the statuses the backend reported, and the boot analysis over them.
SessionReport(tests, statuses) ==
    LET test_results ==
            [i \in DOMAIN tests |->
                [test_id |-> tests[i].id, status |-> statuses[i],
                 category |-> ServerCategory(tests[i].name)]]
    IN [test_results |-> test_results,
        boot_analysis |-> GenerateReport(test_results).boot_analysis]

CallSessionReport ==
    \E caps \in UNION {[1..n -> SessionCaps] : n \in 0..MaxCaps} :
        \E statuses \in [DOMAIN RegisteredTests(caps) -> {"passed", "failed"}] :
            /\ call.fn = "none"
            /\ call' = [fn |-> "run_verification.report",
                        args |-> [tests |-> RegisteredTests(caps),
                                  statuses |-> statuses],
                        ret |-> SessionReport(RegisteredTests(caps), statuses)]
            /\ UNCHANGED <<dockerSide, platSide, serviceSide>>

\* ------------------------------------------------------------ specification

Next ==
    \/ DockerStatus
    \/ \E s \in Sessions : UploadBinary(s)
    \/ \E r \in Runs, s \in Sessions : RunRejected(r, s)
    \/ \E r \in Runs, s \in Sessions : RunAccepted(r, s)
    \/ \E r \in Runs : CheckDocker(r)
    \/ \E r \in Runs : CreateContainer(r)
    \/ \E r \in Runs : StartContainer(r)
    \/ \E r \in Runs : LoadFirmware(r)
    \/ \E r \in Runs : ExecBegin(r)
    \/ \E r \in Runs : TestStart(r)
    \/ \E r \in Runs : TestFinishReal(r)
    \/ \E r \in Runs : TestFinishSim(r)
    \/ \E r \in Runs : ExecEnd(r)
    \/ \E r \in Runs : Cleanup(r)
    \/ \E r \in Runs : DockerExcept(r)
    \/ \E r \in Runs : Report(r)
    \/ \E r \in Runs : ServerExcept(r)

Spec == Init /\ [][Next]_vars

\* The steps of the handler of run r after it was accepted.
RunStep(r) ==
    \/ CheckDocker(r)
    \/ CreateContainer(r)
    \/ StartContainer(r)
    \/ LoadFirmware(r)
    \/ ExecBegin(r)
    \/ TestStart(r)
    \/ TestFinishReal(r)
    \/ TestFinishSim(r)
    \/ ExecEnd(r)
    \/ Cleanup(r)
    \/ DockerExcept(r)
    \/ Report(r)
    \/ ServerExcept(r)

\* Spec under fair scheduling: the event loop runs a handler that can take a
\* step (every subprocess call of the handler has a timeout and every sleep
\* is finite, so a step that is pending does end).
SpecLive == Init /\ [][Next]_vars /\ \A r \in Runs : WF_vars(RunStep(r))

NextPlatform ==
    \/ \E w \in Workflows : WfStart(w)
    \/ \E w \in Workflows : WfPhase(w)
    \/ \E w \in Workflows : WfParse(w)
    \/ \E w \in Workflows : WfWork(w)
    \/ \E w \in Workflows : WfExecBegin(w)
    \/ \E w \in Workflows : WfTestStart(w)
    \/ \E w \in Workflows : WfTestFinish(w)
    \/ \E w \in Workflows : WfExecEnd(w)
    \/ \E w \in Workflows : WfComplete(w)
    \/ \E w \in Workflows : WfExcept(w)

SpecPlatform == Init /\ [][NextPlatform]_vars

NextWorkers ==
    \/ CallExecuteInContainer
    \/ CallGenerateReport
    \/ CallBackendSummary

SpecWorkers == Init /\ [][NextWorkers]_vars

NextReport ==
    \/ CallGenerateRecommendations
    \/ CallCalculateFeatureCoverage

SpecReport == Init /\ [][NextReport]_vars

NextGenerators ==
    \/ CallGenerateTests
    \/ CallMergeParsedDocs

SpecGenerators == Init /\ [][NextGenerators]_vars


NextRegistry ==
    \/ \E config \in RegistryConfigs : RegisterEmulator(config)
    \/ \E id \in EmulatorIds : CallGetEmulator(id)
    \/ \E id \in EmulatorIds : ServerGenerateTests(id)
    \/ \E id \in EmulatorIds : SessionUpload(id)
    \/ SessionTests

SpecRegistry == Init /\ [][NextRegistry]_vars

NextEvidence ==
    \/ CallSimulateTestExecution
    \/ CallExecuteSingleTest

SpecEvidence == Init /\ [][NextEvidence]_vars

NextFirmware ==
    \/ \E s \in Sessions, filename \in FileNames, data \in Contents :
          FirmwareUpload(s, filename, data)
    \/ \E s \in Sessions : FirmwareLoad(s)

SpecFirmware == Init /\ [][NextFirmware]_vars

NextSessionReport == CallSessionReport

SpecSessionReport == Init /\ [][NextSessionReport]_vars

NextChipset ==
    \/ \E r \in BootRequests, chipset_id \in ChipsetIds, firmware \in BOOLEAN :
          RunBootSimulation(r, chipset_id, firmware)
    \/ \E r \in BootRequests : FirmwareRead(r)
    \/ \E r \in BootRequests : SimulateBoot(r)
    \/ \E chipset_id \in ChipsetIds : InitializeChipsetEmulator(chipset_id)

SpecChipset == Init /\ [][NextChipset]_vars

TypeOK ==
    /\ sessStatus \in [Sessions -> {"none", "uploaded", "running", "completed", "failed"}]
    /\ dockerCache \in {"unknown", "yes", "no"}
    /\ loopOwner \in Runs \cup {0}
    /\ \A r \in Runs : Len(results[r]) <= Len(SubmittedTests)

\* ------------------------------------------------------------ properties

\* The moves of ContainerConfig.status the state machine allows.
AllowedContainerStep(a, b) ==
    \/ <<a, b>> \in {<<"none", "creating">>, <<"creating", "running">>,
                     <<"running", "loading_firmware">>,
                     <<"loading_firmware", "testing">>,
                     <<"testing", "completed">>,
                     <<"completed", "stopped">>, <<"error", "stopped">>}
    \/ /\ b = "error"
       /\ a \in {"creating", "running", "loading_firmware", "testing"}

\* C1: the status of an execution environment only changes along
\* creating -> running -> loading_firmware -> testing -> completed, to error
\* from a non-terminal status, or to stopped from completed or error; nothing
\* but stopped follows error.
C1_ContainerStatusMachine ==
    [][\A r \in Runs :
          containerStatus'[r] # containerStatus[r]
            => AllowedContainerStep(containerStatus[r], containerStatus'[r])]_vars

\* run_verification of run r has returned.
BackendReturned(r) == dockerResult[r].status # "none"

\* C2: guaranteed release: once run_verification has returned, whatever its
\* status, a stop call was issued for the environment it created and the
\* environment is stopped.
C2_GuaranteedRelease ==
    \A r \in Runs :
        (BackendReturned(r) /\ containerStatus[r] # "none")
            => (stopCalls[r] >= 1 /\ containerStatus[r] = "stopped")

\* C3: when the runtime is available and starting the environment fails, no
\* test case is executed (execute_tests is never entered, no outcome is
\* recorded) and the request ends with the session marked failed.
C3_StartFailureAborts ==
    [][\A r \in Runs :
          startResult[r] = "error"
            => /\ idx'[r] = 0
               /\ results'[r] = <<>>
               /\ response'[r] \in {"none", "failed"}]_vars

\* C4: when the firmware path does not exist at execution time the session
\* ends failed, never completed, and no report is registered for the run.
C4_FirmwareMissingFails ==
    [][\A r \in Runs :
          fwMissing[r]
            => /\ response'[r] \in {"none", "failed"}
               /\ reports' = reports]_vars

\* C5: a session's status only changes uploaded -> running -> completed or
\* failed; completed and failed are final, and the results of a completed
\* session are never replaced.
C5_SessionStatusMachine ==
    [][\A s \in Sessions :
          /\ sessStatus'[s] # sessStatus[s]
               => <<sessStatus[s], sessStatus'[s]>> \in
                     {<<"none", "uploaded">>, <<"uploaded", "running">>,
                      <<"running", "completed">>, <<"running", "failed">>}
          /\ sessStatus[s] = "completed" => sessResults'[s] = sessResults[s]]_vars

\* C6: a sink that raises is never fatal: a workflow fails only because one
\* of its phases raised, never because of what a sink did.
C6_SinkFailureNeverFatal ==
    \A w \in Workflows :
        wfReturn[w] = "failed" => wfFailCause[w] = "phase"

\* C7: cross-session isolation: every event a sink receives was produced by
\* the run the sink was supplied for.
C7_SinkIsolation ==
    \A k \in Workflows :
        \A i \in DOMAIN sinkCalls[k] : sinkCalls[k][i].src = k

\* execute_tests of run r was entered and has ended (returned or raised).
ExecEnded(r) ==
    /\ idx[r] >= 1
    /\ pc[r] \in {"cleanup", "report", "server_except", "done"}

\* C8: the backend yields exactly one outcome per submitted test case, the
\* i-th outcome carrying the id of the i-th submitted test.
C8_OneOutcomePerTestInOrder ==
    \A r \in Runs :
        ExecEnded(r)
            => /\ Len(results[r]) = Len(SubmittedTests)
               /\ \A i \in DOMAIN results[r] :
                    results[r][i].test_id = SubmittedTests[i].id

\* The runs in flight for session s.
ActiveRuns(s) ==
    {r \in Runs : runSess[r] = s /\ pc[r] # "idle" /\ response[r] = "none"}

IsTestLine(e) == e.kind \in {"Running", "Result"}

\* C9: no intra-session parallelism: a session has at most one run in flight,
\* and in its log stream the per-test lines alternate Running k, Result k,
\* Running k+1, ...: Running k+1 never precedes Result k and no two tests
\* are in execution at once.
C9_NoIntraSessionParallelism ==
    \A s \in Sessions :
        /\ Cardinality(ActiveRuns(s)) <= 1
        /\ LET t == SelectSeq(sessLogs[s], IsTestLine)
           IN \A i \in DOMAIN t :
                t[i] = LogEvent(IF i % 2 = 1 THEN "Running" ELSE "Result",
                                (i + 1) \div 2)

\* C9 witness: two sessions run concurrently, one of them already having
\* started its second test after the result of its first.
C9_Witness ==
    \E s1, s2 \in Sessions :
        /\ s1 # s2
        /\ ActiveRuns(s1) # {} /\ ActiveRuns(s2) # {}
        /\ Len(sessLogs[s1]) >= 3
        /\ sessLogs[s1][3] = LogEvent("Running", 2)
        /\ Len(sessLogs[s2]) >= 1

\* C10: in real mode a raise while writing, transferring or launching the
\* script of one test yields an error outcome for that test only, and the
\* remaining tests still run: every test gets an outcome.
C10_PerTestErrorIsLocal ==
    \A r \in Runs :
        \A k \in raisedAt[r] :
            /\ pc[r] # "in_container"
                 => (k <= Len(results[r]) /\ results[r][k].status = "error")
            /\ ExecEnded(r) => Len(results[r]) = Len(SubmittedTests)

\* C11: real-mode outcome mapping.  The script ran when its transfer into the
\* environment succeeded and its launch did not fail.  The outcome is passed
\* iff the script ran and exited 0, failed iff it ran and exited nonzero, and
\* error whenever the transfer or the launch failed: a failed transfer never
\* yields passed or failed.
C11_RealModeOutcomeMapping ==
    (call.fn = "_execute_in_container" /\ call.args.wr = "ok")
        => LET transferFailed == call.args.cp # "ok"
               launchFailed == call.args.cp # "raise" /\ call.args.ex = "raise"
               ran == ~transferFailed /\ ~launchFailed
           IN /\ call.ret = "passed" <=> (ran /\ call.args.ex = "exit0")
              /\ call.ret = "failed" <=> (ran /\ call.args.ex = "nonzero")
              /\ (transferFailed \/ launchFailed) => call.ret = "error"

Verdicts == {"PASS", "CONDITIONAL", "FAIL"}

\* C12: Scenario D.  A run whose runtime probe failed (the probe returned
\* "not available" instead of raising) runs in fallback mode: its container
\* start is simulated, no test executes in a container, nothing in the
\* backend raises but a missing firmware file, no backend step fails the
\* request, and when the report step succeeds the session is completed with
\* execution mode simulated and a registered report whose verdict is PASS,
\* CONDITIONAL or FAIL.
C12_ProbeFailureSelectsFallback ==
    [][\A r \in Runs :
          dockerAvail[r] = "no"
            => /\ pc'[r] # "in_container"
               /\ startResult'[r] \in {"none", "simulated"}
               /\ pc'[r] = "docker_except" => fwMissing'[r]
               /\ pc[r] # "report" => pc'[r] # "server_except"
               /\ (pc[r] = "report" /\ pc'[r] = "done")
                    => /\ response'[r] = "completed"
                       /\ sessStatus'[runSess[r]] = "completed"
                       /\ sessResults'[runSess[r]].docker_mode = "simulated"
                       /\ sessResults'[runSess[r]].verdict \in Verdicts
                       /\ Len(reports') = Len(reports) + 1
                       /\ reports'[Len(reports')].verdict \in Verdicts]_vars

\* C12 witness: with the probe failed, a session has completed in simulated
\* mode with an outcome for every test.
C12_Witness ==
    \E s \in Sessions :
        /\ dockerCache = "no"
        /\ sessStatus[s] = "completed"
        /\ sessResults[s].docker_mode = "simulated"
        /\ sessResults[s].total = NumTests
        /\ sessResults[s].verdict \in Verdicts

\* C13: mode selection is probed once per backend lifetime.  Once a call of
\* check_docker_available has returned, the cached availability never
\* changes, whichever caller (run_verification, start_container,
\* stop_container, the status endpoint) checks next, and the availability
\* every run works with is the cached one.
C13_ProbedOnce ==
    [][/\ dockerCache # "unknown" => dockerCache' = dockerCache
       /\ \A r \in Runs :
            dockerAvail'[r] # "unknown" => dockerAvail'[r] = dockerCache']_vars

\* C13 witness: after a run that checked three times (run_verification,
\* start_container, stop_container) with the runtime available, the run of
\* another request works with the same availability.
C13_Witness ==
    \E r1, r2 \in Runs :
        /\ r1 # r2
        /\ stopCalls[r1] >= 1
        /\ dockerCache = "yes"
        /\ dockerAvail[r2] = "yes"

\* The phase events sink k was called with, in the order of the calls.
IsPhaseEvent(e) == e.kind = "phase"
PhaseEvents(k) == SelectSeq(sinkCalls[k], IsPhaseEvent)

\* The phase whose event is the i-th a run delivers.
ClaimedPhaseOrder ==
    <<"parsing_documents", "generating_emulator", "registering_emulator",
      "generating_boot_tests", "generating_feature_tests", "registering_tests",
      "uploading_firmware", "executing_tests", "generating_report",
      "registering_report", "completed">>

\* C14: pipeline phase order.  The phase events a run's sink receives are the
\* run's own and come in the order parsing_documents, generating_emulator,
\* registering_emulator, generating_boot_tests, generating_feature_tests,
\* registering_tests, uploading_firmware, executing_tests, generating_report,
\* registering_report, completed; a run that completed delivered all eleven;
\* and an effect of a phase (registry write, firmware write, test outcome)
\* is there only after the phase's event was delivered.
C14_PhaseOrder ==
    \A w \in Workflows :
        LET ev == PhaseEvents(w)
        IN /\ Len(ev) <= Len(ClaimedPhaseOrder)
           /\ \A i \in DOMAIN ev :
                ev[i] = [src |-> w, kind |-> "phase", k |-> ClaimedPhaseOrder[i]]
           /\ wfReturn[w] = "completed" => Len(ev) = Len(ClaimedPhaseOrder)
           /\ w \in store.emulators => Len(ev) >= RegisterEmulatorPhase
           /\ w \in store.tests => Len(ev) >= RegisterTestsPhase
           /\ w \in store.firmware => Len(ev) >= UploadPhase
           /\ wfResults[w] # <<>> => Len(ev) >= ExecPhase
           /\ w \in store.reports => Len(ev) >= RegisterReportPhase

\* C14 witness: two runs completed after running their tests concurrently
\* (the sink of one received a line of the other), each with its report
\* registered.
C14_Witness ==
    \E w1, w2 \in Workflows :
        /\ w1 # w2
        /\ wfReturn[w1] = "completed" /\ wfReturn[w2] = "completed"
        /\ {w1, w2} \subseteq store.reports
        /\ \E i \in DOMAIN sinkCalls[w2] : sinkCalls[w2][i].src = w1

\* C15: pipeline failure without rollback.  Whatever raises in a run, the
\* run goes to the except branch and nowhere else, which marks the workflow
\* failed with the error's message; after that the run announces no phase
\* and writes nothing; nothing is ever removed from the registry or the
\* firmware directory; and what the phases before the failing one wrote
\* (config, test set) is there after the failure.
C15_FailureWithoutRollback ==
    /\ [](\A w \in Workflows :
            wfReturn[w] = "failed"
              => /\ wfPc[w] = "wf_done"
                 /\ wfPhaseIdx[w] > RegisterEmulatorPhase => w \in store.emulators
                 /\ wfPhaseIdx[w] > RegisterTestsPhase => w \in store.tests
                 /\ wfPhaseIdx[w] > UploadPhase => w \in store.firmware)
    /\ [][/\ store.emulators \subseteq store'.emulators
          /\ store.tests \subseteq store'.tests
          /\ store.reports \subseteq store'.reports
          /\ store.firmware \subseteq store'.firmware
          /\ \A w \in Workflows :
               /\ wfPc[w] = "wf_except"
                    => /\ wfPc'[w] \in {"wf_except", "wf_done"}
                       /\ wfPc'[w] = "wf_done"
                            => /\ wfReturn'[w] = "failed"
                               /\ workflowStatus'.id = w
                               /\ workflowStatus'.status = "failed"
                               /\ workflowStatus'.error = ErrorOf(w)
               /\ wfReturn[w] = "failed"
                    => /\ wfPhaseIdx'[w] = wfPhaseIdx[w]
                       /\ PhaseEvents(w)' = PhaseEvents(w)
                       /\ \A f \in {"emulators", "tests", "firmware", "reports"} :
                            w \in store'[f] <=> w \in store[f]]_vars

\* C15 witness: a run failed in its report phase while another run was
\* executing its tests, and its config, test set and firmware are there.
C15_Witness ==
    \E w1, w2 \in Workflows :
        /\ wfReturn[w1] = "failed"
        /\ wfPhaseIdx[w1] = ExecPhase + 1
        /\ w1 \in store.emulators \cap store.tests \cap store.firmware
        /\ wfPc[w2] = "wf_sleeping"

\* Phase parsing_documents of run w has ended, by returning or by raising.
ParseEnded(w) ==
    /\ wfDocs[w] # <<>>
    /\ \/ wfPhaseIdx[w] > ParsePhase
       \/ wfPhaseIdx[w] = ParsePhase /\ wfPc[w] = "wf_except"

\* C16: an unreadable document aborts ingestion for that document only: when
\* the parsing phase has ended, every readable document was parsed and the
\* run goes on (it is not in its except branch).
C16_UnreadableDocumentIsSkipped ==
    \A w \in Workflows :
        ParseEnded(w)
            => /\ wfParsed[w] = {i \in DOMAIN wfDocs[w] : wfDocs[w][i] = "ok"}
               /\ wfPc[w] # "wf_except"

\* C17: session liveness: a session that is running eventually is completed
\* or failed.
C17_SessionLiveness ==
    \A s \in Sessions :
        (sessStatus[s] = "running")
            ~> (sessStatus[s] \in {"completed", "failed"})

\* C17 witness: one session ended completed after real-mode execution,
\* another ended failed.
C17_Witness ==
    \E s1, s2 \in Sessions :
        /\ sessStatus[s1] = "completed"
        /\ sessResults[s1].docker_mode = "real"
        /\ sessStatus[s2] = "failed"

\* C18: verdict thresholds.  The verdict of a report is PASS iff its
\* pass_rate is at least 95.0, CONDITIONAL iff it is at least 80.0 and below
\* 95.0, FAIL iff it is below 80.0; 19 passed of 20 gives PASS, 16 passed of
\* 20 gives CONDITIONAL, and the rates 95.0, 94.9, 80.0, 79.9 give PASS,
\* CONDITIONAL, CONDITIONAL, FAIL.
C18_VerdictThresholds ==
    call.fn = "generate_report"
        => LET rate == call.ret.summary.pass_rate
               v == call.ret.verdict
           IN /\ v = "PASS" <=> rate >= 950
              /\ v = "CONDITIONAL" <=> (rate >= 800 /\ rate < 950)
              /\ v = "FAIL" <=> rate < 800
              /\ (call.ret.summary.total = 20 /\ call.ret.summary.passed = 19)
                   => (rate = 950 /\ v = "PASS")
              /\ (call.ret.summary.total = 20 /\ call.ret.summary.passed = 16)
                   => (rate = 800 /\ v = "CONDITIONAL")
              /\ rate = 950 => v = "PASS"
              /\ rate = 949 => v = "CONDITIONAL"
              /\ rate = 800 => v = "CONDITIONAL"
              /\ rate = 799 => v = "FAIL"

\* C18 witness: a report over outcomes whose pass rate is 79.9.
C18_Witness ==
    /\ call.fn = "generate_report"
    /\ call.ret.summary.pass_rate = 799
    /\ call.ret.verdict = "FAIL"

IsPassed(o) == o.status = "passed"
IsFailed(o) == o.status = "failed"
IsError(o) == o.status = "error"
IsSkipped(o) == o.status = "skipped"

\* rate (in tenths of a percent) is passed / total * 100 rounded to one
\* decimal: no tenth is nearer; 0 when total is 0.
RoundedRate(rate, passed, total) ==
    IF total = 0 THEN rate = 0
    ELSE /\ 2 * (rate * total - 1000 * passed) <= total
         /\ 2 * (1000 * passed - rate * total) <= total

\* C19: summary pass rate.  total is the number of outcomes, passed, failed,
\* errors and skipped count the outcomes of that status, and pass_rate is
\* passed / total * 100 rounded to one decimal, 0 when there is no outcome;
\* the backend's own summary is computed the same way.
C19_SummaryPassRate ==
    /\ call.fn = "generate_report"
         => LET sm == call.ret.summary
            IN /\ sm.total = Len(call.args)
               /\ sm.passed = Len(SelectSeq(call.args, IsPassed))
               /\ sm.failed = Len(SelectSeq(call.args, IsFailed))
               /\ sm.errors = Len(SelectSeq(call.args, IsError))
               /\ sm.skipped = Len(SelectSeq(call.args, IsSkipped))
               /\ RoundedRate(sm.pass_rate, sm.passed, sm.total)
               /\ sm.pass_rate = BackendSummary(call.args).pass_rate
    /\ call.fn = "run_verification.summary"
         => LET sm == call.ret
            IN /\ sm.total = Len(call.args)
               /\ sm.passed = Len(SelectSeq(call.args, IsPassed))
               /\ sm.failed = Len(SelectSeq(call.args, IsFailed))
               /\ sm.errors = Len(SelectSeq(call.args, IsError))
               /\ RoundedRate(sm.pass_rate, sm.passed, sm.total)
               /\ sm.pass_rate = GenerateReport(call.args).summary.pass_rate

\* C19 witness: the backend's summary of three outcomes, two of them passed:
\* 66.7.
C19_Witness ==
    /\ call.fn = "run_verification.summary"
    /\ call.ret.total = 3
    /\ call.ret.passed = 2
    /\ call.ret.errors = 1
    /\ call.ret.pass_rate = 667

\* C20: boot analysis.  Over the outcomes of a boot-related category the
\* status is no_boot_tests iff there is none, pass iff there is one and all
\* of them passed, fail otherwise.
C20_BootAnalysis ==
    call.fn = "generate_report"
        => LET boot == SelectSeq(call.args, IsBootOutcome)
               st == call.ret.boot_analysis.status
           IN /\ st \in {"no_boot_tests", "pass", "fail"}
              /\ st = "no_boot_tests" <=> boot = <<>>
              /\ st = "pass" <=> (boot # <<>> /\ \A i \in DOMAIN boot :
                                                    boot[i].status = "passed")
              /\ st = "fail" <=> \E i \in DOMAIN boot :
                                    boot[i].status \in {"failed", "error", "skipped"}

\* C20 witness: a report over a passed and a skipped boot outcome and a
\* failed outcome of another category: fail.
C20_Witness ==
    /\ call.fn = "generate_report"
    /\ call.args = <<[status |-> "passed", category |-> "boot"],
                     [status |-> "failed", category |-> "network"],
                     [status |-> "skipped", category |-> "boot"]>>
    /\ call.ret.boot_analysis.status = "fail"

\* The order the recommendation sentences are listed in.
RecRank(kind) ==
    CASE kind = "critical_boot" -> 1
      [] kind = "critical_security" -> 2
      [] kind = "network" -> 3
      [] kind = "wifi" -> 4
      [] kind \in {"warn_conditional", "warn_fail"} -> 5
      [] kind = "review" -> 6
      [] OTHER -> 0

\* C21: recommendations.  When every outcome passed the list is the one
\* affirmative entry; when an outcome is failed or error and the verdict is
\* CONDITIONAL or FAIL the list holds the warning of that verdict; the boot
\* and the security category each contribute a CRITICAL entry when one of
\* their outcomes did not pass; the entries come in the order boot,
\* security, network, wifi, verdict warning, review count.
C21_Recommendations ==
    call.fn = "_generate_recommendations"
        => LET trs == call.args.test_results
               v == call.args.verdict
               recs == call.ret
               Kinds == {recs[i].kind : i \in DOMAIN recs}
               NotPassed(c) == \E i \in DOMAIN trs :
                                  trs[i].category = c /\ trs[i].status # "passed"
           IN /\ (\A i \in DOMAIN trs : trs[i].status = "passed")
                    => recs = <<Rec("all_passed", 0)>>
              /\ (\E i \in DOMAIN trs : trs[i].status \in {"failed", "error"})
                    => /\ v = "CONDITIONAL" => "warn_conditional" \in Kinds
                       /\ v = "FAIL" => "warn_fail" \in Kinds
              /\ NotPassed("boot") => "critical_boot" \in Kinds
              /\ NotPassed("security") => "critical_security" \in Kinds
              /\ "all_passed" \notin Kinds
                    => \A i, j \in DOMAIN recs :
                          i < j => RecRank(recs[i].kind) < RecRank(recs[j].kind)

\* C22: feature coverage.  The outcomes are grouped by category; for every
\* category total is passed plus not passed outcomes of the category,
\* coverage is passed / total * 100 rounded to one decimal, and
\* fully_covered is the number of categories in which every outcome passed.
C22_FeatureCoverage ==
    call.fn = "_calculate_feature_coverage"
        => LET trs == call.args
               cov == call.ret
               InCat(c) == SelectSeq(trs, LAMBDA r : r.category = c)
               cats == {trs[i].category : i \in DOMAIN trs}
           IN /\ DOMAIN cov.by_category = cats
              /\ cov.total_categories = Cardinality(cats)
              /\ \A c \in cats :
                    LET e == cov.by_category[c]
                    IN /\ e.total = Len(InCat(c))
                       /\ e.passed = Len(SelectSeq(InCat(c), IsPassed))
                       /\ e.total = e.passed + e.failed
                       /\ RoundedRate(e.coverage, e.passed, e.total)
              /\ cov.fully_covered
                    = Cardinality({c \in cats :
                          \A i \in DOMAIN trs :
                              trs[i].category = c => trs[i].status = "passed"})

\* C24: generated test ids are unique within the test set of a config, also
\* when the capabilities or requirements of the config repeat ids that come
\* from different documents.
C24_UniqueTestIds ==
    call.fn = "generate_tests"
        => \A i, j \in DOMAIN call.ret.all_tests :
              i # j => call.ret.all_tests[i].id # call.ret.all_tests[j].id

\* The requirements of reqs (by position) that cite capability cap: the
\* description contains the capability's name, letter case ignored, or
\* linked_capabilities holds the capability's id.
CitingRequirements(cap, reqs) ==
    {j \in DOMAIN reqs :
        \/ Contains(Lower(cap.name), Lower(reqs[j].description))
        \/ \E k \in DOMAIN reqs[j].linked_capabilities :
              reqs[j].linked_capabilities[k] = cap.id}

\* C25: feature rule per capability.  For every capability of the config
\* exactly one test case <capability_id>_FUNC_001 is emitted; its
\* linked_capabilities holds the capability's id and its linked_requirements
\* are the first at most 3 requirements, in config order, that cite the
\* capability by name in the description or by id in linked_capabilities.
C25_FeatureRulePerCapability ==
    call.fn = "generate_tests"
        => LET caps == call.args.capabilities
               reqs == call.args.requirements
               tests == call.ret.feature_tests
           IN /\ Len(tests) >= Len(caps)
              /\ Cardinality({i \in DOMAIN tests : tests[i].id[3] = "_FUNC_001"})
                    = Len(caps)
              /\ \A i \in DOMAIN caps :
                    LET t == tests[i]
                        M == CitingRequirements(caps[i], reqs)
                    IN /\ t.id = <<"", caps[i].id, "_FUNC_001">>
                       /\ \E k \in DOMAIN t.linked_capabilities :
                             t.linked_capabilities[k] = caps[i].id
                       /\ Len(t.linked_requirements)
                             = (IF Cardinality(M) < 3 THEN Cardinality(M) ELSE 3)
                       /\ \A k \in DOMAIN t.linked_requirements :
                             \E j \in M :
                                /\ t.linked_requirements[k] = reqs[j].id
                                /\ Cardinality({m \in M : m < j}) = k - 1

\* C25 witness: four requirements name the first capability in capitals and
\* cite no id; its test case links the first three of them.
C25_Witness ==
    /\ call.fn = "generate_tests"
    /\ Len(call.args.capabilities) = 2
    /\ Len(call.args.requirements) = 4
    /\ \A j \in 1..4 :
          /\ call.args.requirements[j].description = <<"E", "T", "H">>
          /\ call.args.requirements[j].linked_capabilities = <<>>
    /\ call.ret.feature_tests[1].linked_requirements
          = <<"REQ_001", "REQ_002", "REQ_003">>

\* C26: requirement coverage.  A requirement that no capability test links
\* has exactly one requirement test REQ_<requirement_id>_TEST, a requirement
\* that a capability test links has none, and every requirement id of the
\* config is in linked_requirements of at least one generated test case.
C26_RequirementCoverage ==
    call.fn = "generate_tests"
        => LET caps == call.args.capabilities
               reqs == call.args.requirements
               tests == call.ret.feature_tests
               Links(i, id) == \E k \in DOMAIN tests[i].linked_requirements :
                                  tests[i].linked_requirements[k] = id
               ReqTests(id) == {i \in DOMAIN tests :
                                   tests[i].id = <<"REQ_", id, "_TEST">>}
           IN /\ \A j \in DOMAIN reqs :
                    /\ (\E i \in 1..Len(caps) : Links(i, reqs[j].id))
                          => ReqTests(reqs[j].id) = {}
                    /\ (\A i \in 1..Len(caps) : ~Links(i, reqs[j].id))
                          => /\ Cardinality(ReqTests(reqs[j].id)) = 1
                             /\ \A i \in ReqTests(reqs[j].id) : i > Len(caps)
                    /\ \E i \in DOMAIN tests : Links(i, reqs[j].id)
              /\ \A i \in DOMAIN tests :
                    i > Len(caps) => \E j \in DOMAIN reqs :
                                        tests[i].id = <<"REQ_", reqs[j].id, "_TEST">>

\* C26 witness: the first requirement cites the capability by id and is
\* linked by its test; the second cites nothing and gets a requirement test.
C26_Witness ==
    /\ call.fn = "generate_tests"
    /\ Len(call.args.capabilities) = 1
    /\ Len(call.args.requirements) = 2
    /\ call.args.requirements[1].linked_capabilities = <<"CAP_001">>
    /\ call.args.requirements[2].linked_capabilities = <<>>
    /\ call.args.requirements[2].description = <<"e", "t">>
    /\ Len(call.ret.feature_tests) = 2
    /\ call.ret.feature_tests[1].linked_requirements = <<"REQ_001">>
    /\ call.ret.feature_tests[2].id = <<"REQ_", "REQ_002", "_TEST">>

\* C27: boot requirement linking.  When the config has requirements whose
\* title or description mentions boot, every boot test case generated for
\* the config links the first up to two of them; it links none when there is
\* no such requirement.
C27_BootRequirementLinking ==
    call.fn = "generate_tests"
        => LET reqs == call.args.requirements
               B == {j \in DOMAIN reqs : MentionsBoot(reqs[j])}
           IN \A i \in DOMAIN call.ret.boot_tests :
                 LET l == call.ret.boot_tests[i].linked_requirements
                 IN /\ Len(l) = (IF Cardinality(B) < 2 THEN Cardinality(B) ELSE 2)
                    /\ \A k \in DOMAIN l :
                          \E j \in B : /\ l[k] = reqs[j].id
                                       /\ Cardinality({m \in B : m < j}) = k - 1

\* C28: scenario A.  For a config without capabilities and requirements the
\* generators yield the 6 fixed boot test cases and no feature test case;
\* the boot test cases have the same 6 ids for every config.
C28_ScenarioA ==
    call.fn = "generate_tests"
        => /\ [i \in DOMAIN call.ret.boot_tests |-> call.ret.boot_tests[i].id[2]]
                 = <<"BOOT_COLD_001", "BOOT_WARM_001", "BOOT_TIME_001",
                     "BOOT_WDT_001", "BOOT_INTEGRITY_001", "BOOT_RECOVERY_001">>
           /\ \A i \in DOMAIN call.ret.boot_tests :
                 /\ call.ret.boot_tests[i].id[1] = ""
                 /\ call.ret.boot_tests[i].id[3] = ""
           /\ (call.args.capabilities = <<>> /\ call.args.requirements = <<>>)
                 => /\ call.ret.feature_tests = <<>>
                    /\ Len(call.ret.all_tests) = 6

\* C28 witness: the test list of the config without capabilities and
\* requirements.
C28_Witness ==
    /\ call.fn = "generate_tests"
    /\ call.args.capabilities = <<>>
    /\ call.args.requirements = <<>>
    /\ call.ret.all_tests = call.ret.boot_tests
    /\ Len(call.ret.boot_tests) = 6

\* C30: hardware-spec merge.  For every field the merged mapping holds the
\* earliest concrete (non-empty, not "unknown") value that a document gives:
\* a later document never overwrites a concrete value of an earlier one, and
\* a field without a concrete value is not set to one.
C30_HardwareSpecMerge ==
    call.fn = "_merge_parsed_docs"
        => LET docs == call.args
               merged == call.ret.hardware_spec
               Concrete(key) ==
                   {d \in DOMAIN docs :
                       /\ key \in DOMAIN docs[d].hardware_spec
                       /\ docs[d].hardware_spec[key] \notin {"", "unknown"}}
           IN \A key \in HwKeys :
                 IF Concrete(key) = {}
                 THEN key \in DOMAIN merged => merged[key] \in {"", "unknown"}
                 ELSE /\ key \in DOMAIN merged
                      /\ \E d \in Concrete(key) :
                            /\ \A e \in Concrete(key) : d <= e
                            /\ merged[key] = docs[d].hardware_spec[key]

\* The generated test list of every config puts the boot test cases first,
\* then the capability test cases in capability order, then the requirement
\* test cases in requirement order.
GeneratedListOrder ==
    \A config \in Configs :
        LET boot == GenerateBootTests(config, None)
            all == boot \o GenerateFeatureTests(config, None, None)
            caps == config.capabilities
            reqs == config.requirements
            FirstReq(id) == CHOOSE j \in DOMAIN reqs :
                               /\ reqs[j].id = id
                               /\ \A m \in DOMAIN reqs : reqs[m].id = id => j <= m
        IN /\ Len(all) >= Len(boot) + Len(caps)
           /\ \A i \in DOMAIN boot : all[i].id[1] = "" /\ all[i].id[3] = ""
           /\ \A i \in DOMAIN caps :
                 all[Len(boot) + i].id = <<"", caps[i].id, "_FUNC_001">>
           /\ \A i \in DOMAIN all :
                 i > Len(boot) + Len(caps)
                     => /\ all[i].id[1] = "REQ_" /\ all[i].id[3] = "_TEST"
                        /\ \E j \in DOMAIN reqs : reqs[j].id = all[i].id[2]
           /\ \A i, j \in DOMAIN all :
                 (Len(boot) + Len(caps) < i /\ i < j)
                     => FirstReq(all[i].id[2]) < FirstReq(all[j].id[2])

\* The test ids of the "Running" lines that the log sink of workflow w has
\* recorded, in the order recorded.
RunningLog(w) ==
    LET evs == SelectSeq(sinkCalls[w], LAMBDA e : e.kind = "Running")
    IN [i \in DOMAIN evs |-> SubmittedTests[evs[i].k].id]

\* C29: scenario E.  In every pipeline run the test cases are executed and
\* logged in the order of the generated test list, which has the boot test
\* cases before the feature test cases and the capability test cases before
\* the requirement test cases.
C29_ScenarioE ==
    /\ GeneratedListOrder
    /\ \A w \in Workflows :
          /\ Len(RunningLog(w)) <= Len(SubmittedTests)
          /\ \A i \in DOMAIN RunningLog(w) :
                RunningLog(w)[i] = SubmittedTests[i].id
          /\ wfPhaseIdx[w] > ExecPhase
                => Len(RunningLog(w)) = Len(SubmittedTests)

\* C31: registry round trip. Right after register_emulator(config),
\* get_emulator(config.emulator_id) returns a record with the emulator_id,
\* the vendor and the architecture of the config and with the numbers of its
\* capabilities and requirements, and what get_emulator returns for every
\* other id is what it returned before the registration.
C31_RegistryRoundTrip ==
    [][\A config \in RegistryConfigs :
          (call'.fn = "register_emulator" /\ call'.args = config)
          => LET got == GetEmulator(config.emulator_id)'
             IN /\ got.given
                /\ got.value.emulator_id = config.emulator_id
                /\ got.value.vendor = config.vendor
                /\ got.value.architecture = config.architecture
                /\ got.value.capabilities_count = Len(config.capabilities)
                /\ got.value.requirements_count = Len(config.requirements)
                /\ \A other \in EmulatorIds \ {config.emulator_id} :
                      GetEmulator(other)' = GetEmulator(other)]_vars

\* C31 witness: get_emulator returned the record of a config with
\* capabilities and without requirements while the other id holds a config
\* of another vendor.
C31_Witness ==
    /\ call.fn = "get_emulator"
    /\ call.ret.given
    /\ call.ret.value.capabilities_count = MaxCaps
    /\ call.ret.value.requirements_count = 0
    /\ \E other \in EmulatorIds \ {call.args} :
          /\ GetEmulator(other).given
          /\ GetEmulator(other).value.vendor # call.ret.value.vendor

\* C32: fallback evidence. Every outcome of _simulate_test_execution and of
\* _execute_single_test, whatever its status, has in its evidence a checksum
\* computed over the log lines rendered for that test.
C32_FallbackEvidence ==
    call.fn \in {"_simulate_test_execution", "_execute_single_test"}
        => /\ "checksum" \in DOMAIN call.ret.evidence
           /\ call.ret.evidence.checksum = Checksum(call.ret.lines)

\* C33: at most one run is in flight per session. A run request is handled
\* in one step that either rejects it, which happens only while a session is
\* running and leaves the status, logs, results and error of every session
\* as they were, or accepts it for a session that was not running and is
\* running afterwards; so no session ever has two runs in flight.
C33_OneRunInFlight ==
    [][/\ \A r \in Runs :
            (pc[r] = "idle" /\ pc'[r] # "idle")
            => IF response'[r] = "rejected"
               THEN /\ \E s \in Sessions : sessStatus[s] = "running"
                    /\ sessVars' = sessVars
               ELSE /\ sessStatus[runSess'[r]] \in {"uploaded", "completed", "failed"}
                    /\ sessStatus'[runSess'[r]] = "running"
       /\ \A s \in Sessions : Cardinality(ActiveRuns(s))' <= 1]_vars

\* C33 witness: a request was rejected while the run of a session is in
\* flight and has logged.
C33_Witness ==
    \E r, q \in Runs, s \in Sessions :
        /\ response[r] = "rejected"
        /\ q \in ActiveRuns(s)
        /\ sessStatus[s] = "running"
        /\ Len(sessLogs[s]) >= 1

\* C34: the affirmative recommendation is given only with verdict PASS: no
\* report whose verdict is FAIL or CONDITIONAL carries 'All tests passed.
\* System is ready for deployment.'.
C34_AffirmativeOnlyOnPass ==
    call.fn = "_generate_recommendations"
        => ((\E i \in DOMAIN call.ret : call.ret[i].kind = "all_passed")
               => call.args.verdict = "PASS")

\* C35: firmware identity. The bytes loaded for a session have the SHA-256
\* checksum recorded in the session's firmware descriptor at upload.
C35_FirmwareIdentity ==
    \A s \in Sessions :
        fwLoaded[s].given
            => Sha256(fwLoaded[s].value) = fwInfo[s].value.sha256

\* C36: a session exposes results only when it is completed. While the
\* status is uploaded, running or failed, get_verification_results answers
\* without a result set and list_verification_sessions without a verdict;
\* a completed session shows its verdict.
C36_ResultsOnlyWhenCompleted ==
    \A s \in DOMAIN ListVerificationSessions :
        IF sessStatus[s] = "completed"
        THEN /\ GetVerificationResults(s).results.verdict \in Verdicts
             /\ ListVerificationSessions[s].verdict \in Verdicts
        ELSE /\ GetVerificationResults(s).results = NoResults
             /\ ListVerificationSessions[s].verdict = "none"

\* C37: in a session's report the boot analysis counts exactly the outcomes
\* of the test cases registered with category boot: tests_run is their
\* number (6 for the boot test cases of every config), and no outcome of
\* another test case is counted.
C37_BootOutcomesCounted ==
    call.fn = "run_verification.report"
        => LET tests == call.args.tests
               trs == call.ret.test_results
               registered == {i \in DOMAIN tests : tests[i].category = "boot"}
               counted == {i \in DOMAIN trs : IsBootOutcome(trs[i])}
           IN /\ counted = registered
              /\ call.ret.boot_analysis.tests_run = Cardinality(registered)
              /\ call.ret.boot_analysis.tests_run = Len(BootTestIds)

\* C38: the test set a session generates on demand, and the one
\* server.generate_tests generates for a registered emulator, is the test
\* set the pipeline generates from the config that was registered: the boot
\* test cases, one test case per capability, and every requirement covered.
C38_OnDemandTestSet ==
    /\ (call.fn = "run_verification.tests" /\ call.ret.generated)
          => \A config \in RegistryConfigs :
                ConfigDict(config) = uploadInfo.value
                    => call.ret.tests = AllTests(config)
    /\ call.fn = "server.generate_tests"
          => \A config \in RegistryConfigs :
                Some(ConfigDict(config)) = GetEmulator(call.args)
                    => call.ret = AllTests(config)

\* The phase of the status record is one workflow w has reached.
PhaseReachedBy(w) ==
    workflowStatus.phase \in
        {"none"} \cup {Phases[k] : k \in 1..wfPhaseIdx[w]}

\* C39: the workflow status record is per run. The record of a workflow id
\* only carries phases that workflow has reached, and once the record says
\* completed or failed, a step that keeps its id (a phase update) changes
\* neither its status nor its error.
C39_StatusPerRun ==
    [][/\ \A w \in Workflows : (workflowStatus.id = w => PhaseReachedBy(w))'
       /\ (/\ workflowStatus.status \in {"completed", "failed"}
           /\ workflowStatus'.id = workflowStatus.id)
             => /\ workflowStatus'.status = workflowStatus.status
                /\ workflowStatus'.error = workflowStatus.error]_vars

\* C40: a boot simulation requested for chipset X runs against the profile
\* of X.  Whatever the other requests do, a simulation started for a request
\* has the profile of the request's chipset, the result returned for a known
\* chipset carries its chipset_id, and a request for an unknown chipset
\* returns an error and starts no simulation.
C40_BootSimulationProfile ==
    \A r \in BootRequests :
        /\ bootProfile[r].given
              => /\ GetProfile(bootChipset[r]).given
                 /\ bootProfile[r] = GetProfile(bootChipset[r])
        /\ bootPc[r] = "done"
              => IF GetProfile(bootChipset[r]).given
                 THEN bootResult[r].chipset_id = bootChipset[r]
                 ELSE bootResult[r].status = "error"

====
